---- MODULE Spec2Model ----
(***************************************************************************)
(* Intent resolution engine of src/src/intent_analyzer.py:                 *)
(*   IntentAnalysisCache  - the TTL + LRU result cache                     *)
(*   IntentAnalyzer       - analyze_intent / analyze_batch_intents         *)
(*                                                                         *)
(* Specifications:                                                         *)
(*   Spec      - cache calls (get, put, clear, get_stats) and              *)
(*               optimize_for_batch, each call one atomic step             *)
(*   SpecKey   - get and put called with one parameter dict in two key     *)
(*               orders                                                    *)
(*   SpecConc  - threads calling get and put concurrently, one step per    *)
(*               lock acquisition, locked block and unlocked access        *)
(*   SpecResolve - analyze_intent called from one thread, each call one    *)
(*               step, the backend answering in every way it can           *)
(*   SpecBatch - analyze_batch_intents, with the pool's tasks and the      *)
(*               collection of their futures as separate steps             *)
(***************************************************************************)
EXTENDS Integers, Sequences, FiniteSets, TLC

VARIABLES
    cache,          \* IntentAnalysisCache.cache: key -> entry
    access_times,   \* IntentAnalysisCache.access_times: key -> last access
    stats,          \* IntentAnalysisCache.stats: hits / misses / evictions
    cache_size,     \* IntentAnalysisCache.cache_size
    now,            \* the latest reading of time.time()
    stored,         \* history: the triples put() was ever called with
    calls,          \* history: number of calls made so far
    last,           \* history: the last completed call, its arguments and result
    lock,           \* IntentAnalysisCache.lock: the thread holding it, or 0
    pc,             \* per thread: where it is in the call it runs
    frame,          \* per thread: the arguments and locals of that call
    gets_done,      \* history: number of get calls that have returned
    enable_cache,   \* IntentAnalyzer.enable_cache
    enable_async,   \* IntentAnalyzer.enable_async (the thread pool exists)
    performance_stats,  \* IntentAnalyzer.performance_stats
    dispatches,     \* history: number of calls of adapter.send_message
    user_inputs,    \* analyze_batch_intents: the argument of the running call
    input_text,     \* analyze_batch_intents: the variable of the submit loop
    futures,        \* analyze_batch_intents: the futures of the submitted tasks
    results,        \* analyze_batch_intents: the list being returned
    batch_pc,       \* analyze_batch_intents: where the call is
    answer,         \* history: what send_message did in the last call, if asked
    given,          \* a function called on its own: its argument
    given_input,    \* ... the original input passed along with it
    api_type,       \* ... self.adapter.config.api_type
    yielded,        \* ... what the call did: raised, or returned a value
    again           \* ... what the call on the value it returned did

cacheVars == <<cache, access_times, stats, cache_size>>
threadVars == <<lock, pc, frame, gets_done>>
analyzerVars == <<enable_cache, enable_async, performance_stats, dispatches>>
batchVars == <<user_inputs, input_text, futures, results, batch_pc>>
pureVars == <<given, given_input, api_type, yielded, again>>
vars == <<cacheVars, now, stored, calls, last, threadVars, analyzerVars,
          batchVars, answer, pureVars>>

---------------------------------------------------------------------------
(* Bounds of the model.                                                    *)

\* IntentAnalysisCache(cache_size=500, ...) scaled down to a checkable size.
CacheSize == 2
\* IntentAnalysisCache(..., ttl=3600) scaled down; one unit is one clock tick.
TTL == 3
\* The clock readings are 0..MaxTime.
MaxTime == 3
\* At most MaxCalls calls are made in one behaviour.
MaxCalls == 4
\* optimize_for_batch is called with expected_batch_size in 0..MaxBatch.
MaxBatch == 2
\* The number of threads calling the cache concurrently.
NThreads == 2
\* At most MaxResolves calls of analyze_intent and analyze_batch_intents are
\* made in one behaviour.
MaxResolves == 3
\* analyze_batch_intents is called with 1..MaxBatchLen inputs.
MaxBatchLen == 2
\* ThreadPoolExecutor(max_workers=4) scaled down.
MaxWorkers == 2
\* A behaviour of SpecThreads makes at most MaxThreadCalls calls of
\* analyze_intent.
MaxThreadCalls == 2
\* A behaviour of SpecBatch makes at most MaxBatchCalls calls: calls of
\* analyze_intent, which fill the cache, and then analyze_batch_intents.
MaxBatchCalls == 2

---------------------------------------------------------------------------
(* Values.                                                                 *)

Min(a, b) == IF a <= b THEN a ELSE b
Max(a, b) == IF a >= b THEN a ELSE b

\* Optional[...]: None, or a value.
None == <<>>
Some(v) == <<v>>

\* The dataclass SearchCriteria with the defaults of __post_init__.
SearchCriteria(query, year_start, year_end) ==
    [query |-> query, year_start |-> year_start, year_end |-> year_end,
     min_if |-> None, max_if |-> None,
     cas_zones |-> <<>>, jcr_quartiles |-> <<>>, keywords |-> <<>>]

\* The <<user_input, model_id>> pairs and the resolved queries the cache
\* calls draw from.
Inputs == {<<"a", "m1">>, <<"b", "m1">>, <<"a", "m2">>}
Queries == {"q1", "q2"}
CriteriaValues == {SearchCriteria(q, None, None) : q \in Queries}

\* IntentAnalyzer.model_parameters as constructed: a dict is an insertion-
\* ordered sequence of <<key, JSON literal of the value>> pairs.
model_parameters ==
    << <<"temperature", "0.1">>, <<"stream", "true">>, <<"max_tokens", "null">> >>

Reverse(s) == [i \in 1..Len(s) |-> s[Len(s) + 1 - i]]

\* The same key/value pairs in two insertion orders.
ParamMaps == {model_parameters, Reverse(model_parameters)}

\* The mapping a dict denotes, whatever its insertion order.
AsMap(parameters) == {parameters[i] : i \in 1..Len(parameters)}

---------------------------------------------------------------------------
(* IntentAnalysisCache._generate_cache_key                                 *)

\* Code-point order of the parameter names (what sort_keys=True sorts by).
KeyOrder == <<"max_tokens", "stream", "temperature">>
KeyRank(k) == CHOOSE i \in 1..Len(KeyOrder) : KeyOrder[i] = k

RECURSIVE InsertSorted(_, _)
InsertSorted(pair, sorted) ==
    IF sorted = <<>> THEN <<pair>>
    ELSE IF KeyRank(pair[1]) <= KeyRank(Head(sorted)[1])
         THEN <<pair>> \o sorted
         ELSE <<Head(sorted)>> \o InsertSorted(pair, Tail(sorted))

RECURSIVE SortKeys(_)
SortKeys(parameters) ==
    IF parameters = <<>> THEN <<>>
    ELSE InsertSorted(Head(parameters), SortKeys(Tail(parameters)))

RECURSIVE JoinItems(_)
JoinItems(pairs) ==
    IF pairs = <<>> THEN ""
    ELSE "\"" \o Head(pairs)[1] \o "\": " \o Head(pairs)[2]
         \o (IF Len(pairs) > 1 THEN ", " ELSE "") \o JoinItems(Tail(pairs))

\* Mutant: the items serialized in insertion order (no sort_keys).
JsonDumpsUnsorted(parameters) == "{" \o JoinItems(parameters) \o "}"

\* json.dumps(parameters, sort_keys=True)
json_dumps(parameters) == "{" \o JoinItems(SortKeys(parameters)) \o "}"

\* hashlib.sha256(...).hexdigest(): a digest is taken to be collision free,
\* so it is a tagged copy of the content it digests.
sha256(content) == <<"sha256", content>>

\* Mutant: the model identifier left out of the digested content.
KeyWithoutModel(user_input, model_id, parameters) ==
    sha256(user_input \o ":" \o json_dumps(parameters))

_generate_cache_key(user_input, model_id, parameters) ==
    sha256(user_input \o ":" \o model_id \o ":" \o json_dumps(parameters))

---------------------------------------------------------------------------
(* IntentAnalysisCache: the object and its methods as functions of the    *)
(* object's state.  A method takes the clock reading t it makes and        *)
(* yields the new state and the value returned.                           *)

\* A dict without key k, and a dict with k set to v.
Remove(d, k) == [x \in DOMAIN d \ {k} |-> d[x]]
Store(d, k, v) == (k :> v) @@ d

\* IntentAnalysisCache.__init__
NewCache(size) ==
    [cache |-> <<>>, access_times |-> <<>>, cache_size |-> size,
     stats |-> [hits |-> 0, misses |-> 0, evictions |-> 0]]

\* The object self of the cache, read from the variables.
Self ==
    [cache |-> cache, access_times |-> access_times, cache_size |-> cache_size,
     stats |-> stats]

\* Mutant: an entry still served at exactly timestamp + ttl.
FreshInclusive(entry, t) == t - entry.timestamp <= TTL

\* time.time() - cache_data['timestamp'] < self.ttl
Fresh(entry, t) == t - entry.timestamp < TTL

\* get under the lock, branch of a resident entry within its ttl
GetHit(self, cache_key, t) ==
    [self |-> [self EXCEPT !.access_times[cache_key] = t,
                           !.stats.hits = @ + 1],
     hit |-> TRUE,
     ret |-> Some(self.cache[cache_key].criteria)]

\* get under the lock, branch of a resident entry past its ttl
GetExpired(self, cache_key) ==
    [self |-> [self EXCEPT !.cache = Remove(@, cache_key),
                           !.access_times = Remove(@, cache_key),
                           !.stats.evictions = @ + 1],
     hit |-> FALSE,
     ret |-> None]

\* The block of get under "with self.lock": it returns from get on a hit
\* and falls through otherwise.
get_locked(self, user_input, model_id, parameters, t) ==
    LET cache_key == _generate_cache_key(user_input, model_id, parameters)
    IN  IF cache_key \in DOMAIN self.cache
        THEN IF Fresh(self.cache[cache_key], t)
             THEN GetHit(self, cache_key, t)
             ELSE GetExpired(self, cache_key)
        ELSE [self |-> self, hit |-> FALSE, ret |-> None]

\* self.stats['misses'] += 1, after the lock is released
CountMiss(self) == [self EXCEPT !.stats.misses = @ + 1]

\* get as one step: the locked block, then the miss count.
get(self, user_input, model_id, parameters, t) ==
    LET r == get_locked(self, user_input, model_id, parameters, t)
    IN  IF r.hit THEN r ELSE [r EXCEPT !.self = CountMiss(r.self)]

\* Mutant: the entry created first, not the one accessed longest ago.
OldestByCreation(self) ==
    {k \in DOMAIN self.cache :
        \A j \in DOMAIN self.cache :
            self.cache[k].timestamp <= self.cache[j].timestamp}

\* min(self.access_times.keys(), key=lambda k: self.access_times[k]): among
\* equal access times the dict order decides; any of them may be the minimum.
OldestKeys(self) ==
    {k \in DOMAIN self.access_times :
        \A j \in DOMAIN self.access_times :
            self.access_times[k] <= self.access_times[j]}

\* len(self.cache) >= self.cache_size
Full(self) == Cardinality(DOMAIN self.cache) >= self.cache_size

\* The LRU clean-up of put.
Evict(self, oldest_key) ==
    [self EXCEPT !.cache = Remove(@, oldest_key),
                 !.access_times = Remove(@, oldest_key),
                 !.stats.evictions = @ + 1]

\* The choices put has for oldest_key: none when there is room.
EvictChoices(self) == IF Full(self) THEN OldestKeys(self) ELSE {None}

put(self, user_input, model_id, parameters, criteria, oldest_key, t) ==
    LET cache_key == _generate_cache_key(user_input, model_id, parameters)
        cleaned == IF Full(self) THEN Evict(self, oldest_key) ELSE self
        entry == [criteria |-> criteria, timestamp |-> t,
                  user_input |-> user_input, model_id |-> model_id,
                  parameters |-> parameters]
    IN  [cleaned EXCEPT !.cache = Store(@, cache_key, entry),
                        !.access_times = Store(@, cache_key, t)]

clear(self) ==
    [self EXCEPT !.cache = <<>>, !.access_times = <<>>,
                 !.stats = [hits |-> 0, misses |-> 0, evictions |-> 0]]

get_stats(self) ==
    [cache_size |-> Cardinality(DOMAIN self.cache),
     max_cache_size |-> self.cache_size,
     hits |-> self.stats.hits,
     misses |-> self.stats.misses,
     evictions |-> self.stats.evictions]

\* Mutant: the new size not kept at or above the constructed size.
OptimizeUnclamped(self, expected_batch_size) ==
    [self EXCEPT !.cache_size = expected_batch_size * 2]

\* IntentAnalyzer.optimize_for_batch; 500 is the constructed cache size.
optimize_for_batch(self, expected_batch_size) ==
    [self EXCEPT !.cache_size = Max(CacheSize, expected_batch_size * 2)]

---------------------------------------------------------------------------
(* Spec: the cache under any sequence of calls.                            *)

SetSelf(self) ==
    /\ cache' = self.cache
    /\ access_times' = self.access_times
    /\ stats' = self.stats
    /\ cache_size' = self.cache_size

Triple(user_input, model_id, parameters) ==
    <<user_input, model_id, AsMap(parameters)>>

\* The record of a call: its arguments, the clock reading it made, the
\* value it returned and the entries it removed from the cache.
Call(op, user_input, model_id, parameters, criteria, ret, removed) ==
    [op |-> op, user_input |-> user_input, model_id |-> model_id,
     parameters |-> parameters, criteria |-> criteria, ret |-> ret,
     t |-> now, removed |-> removed]

NoCall ==
    [op |-> "init", user_input |-> "", model_id |-> "", parameters |-> <<>>,
     criteria |-> None, ret |-> None, t |-> 0, removed |-> {}]

\* The entries of self that are no longer resident, or were replaced, in after.
Removed(self, after) ==
    {self.cache[k] : k \in DOMAIN self.cache \ DOMAIN after.cache}

InitCache ==
    /\ cache = NewCache(CacheSize).cache
    /\ access_times = NewCache(CacheSize).access_times
    /\ stats = NewCache(CacheSize).stats
    /\ cache_size = NewCache(CacheSize).cache_size

\* self.performance_stats as constructed; total_latency, a sum of floats
\* that nothing reads back, is left out.
NewPerformanceStats ==
    [total_analyses |-> 0, cache_hits |-> 0, ai_calls |-> 0, errors |-> 0]

\* The threads that call the cache concurrently.
Threads == 1..NThreads

\* The arguments and locals of the call a thread runs.
Frame(op, user_input, model_id, criteria, misses) ==
    [op |-> op, user_input |-> user_input, model_id |-> model_id,
     criteria |-> criteria, misses |-> misses]

NoFrame == Frame("none", "", "", None, 0)

\* threading.Lock() as constructed, and no thread inside a call.
InitThreads ==
    /\ lock = 0
    /\ pc = [t \in Threads |-> "idle"]
    /\ frame = [t \in Threads |-> NoFrame]
    /\ gets_done = 0

\* IntentAnalyzer.__init__, with no batch call running.
InitAnalyzer ==
    /\ performance_stats = NewPerformanceStats
    /\ dispatches = 0
    /\ user_inputs = <<>>
    /\ input_text = ""
    /\ futures = <<>>
    /\ results = <<>>
    /\ batch_pc = "idle"
    /\ answer = None

\* No function is being called on its own.
InitPure ==
    /\ given = None
    /\ given_input = ""
    /\ api_type = "openai"
    /\ yielded = None
    /\ again = None

Init ==
    /\ InitPure
    /\ InitCache
    /\ InitThreads
    /\ InitAnalyzer
    /\ enable_cache = TRUE
    /\ enable_async = TRUE
    /\ now = 0
    /\ stored = {}
    /\ calls = 0
    /\ last = NoCall

\* time.time() moves on between calls.  The readings one call makes while
\* it holds the lock are taken as one instant, now.
Tick ==
    /\ calls < MaxCalls
    /\ now < MaxTime
    /\ now' = now + 1
    /\ UNCHANGED <<cache, access_times, stats, cache_size, stored, calls, last>>
    /\ UNCHANGED <<threadVars, analyzerVars, batchVars>>
    /\ UNCHANGED <<answer, pureVars>>

Get(user_input, model_id, parameters) ==
    /\ calls < MaxCalls
    /\ LET r == get(Self, user_input, model_id, parameters, now)
       IN  /\ SetSelf(r.self)
           /\ last' = Call("get", user_input, model_id, parameters, None, r.ret,
                            Removed(Self, r.self))
    /\ calls' = calls + 1
    /\ UNCHANGED <<now, stored, threadVars, analyzerVars, batchVars>>
    /\ UNCHANGED <<answer, pureVars>>

Put(user_input, model_id, parameters, criteria) ==
    /\ calls < MaxCalls
    /\ \E oldest_key \in EvictChoices(Self) :
        LET after == put(Self, user_input, model_id, parameters, criteria,
                         oldest_key, now)
        IN  /\ SetSelf(after)
            /\ last' = Call("put", user_input, model_id, parameters,
                            Some(criteria), None,
                            IF Full(Self) THEN {cache[oldest_key]} ELSE {})
    /\ stored' = stored \cup {Triple(user_input, model_id, parameters)}
    /\ calls' = calls + 1
    /\ UNCHANGED <<now, threadVars, analyzerVars, batchVars>>
    /\ UNCHANGED <<answer, pureVars>>

Clear ==
    /\ calls < MaxCalls
    /\ SetSelf(clear(Self))
    /\ last' = Call("clear", "", "", <<>>, None, None, Removed(Self, clear(Self)))
    /\ calls' = calls + 1
    /\ UNCHANGED <<now, stored, threadVars, analyzerVars, batchVars>>
    /\ UNCHANGED <<answer, pureVars>>

GetStats ==
    /\ calls < MaxCalls
    /\ last' = Call("get_stats", "", "", <<>>, None, Some(get_stats(Self)), {})
    /\ calls' = calls + 1
    /\ UNCHANGED <<cache, access_times, stats, cache_size, now, stored, threadVars, analyzerVars, batchVars>>
    /\ UNCHANGED <<answer, pureVars>>

OptimizeForBatch(expected_batch_size) ==
    /\ calls < MaxCalls
    /\ SetSelf(optimize_for_batch(Self, expected_batch_size))
    /\ last' = Call("optimize_for_batch", "", "", <<>>, None, None, {})
    /\ calls' = calls + 1
    /\ UNCHANGED <<now, stored, threadVars, analyzerVars, batchVars>>
    /\ UNCHANGED <<answer, pureVars>>

Next ==
    \/ Tick
    \/ \E a \in Inputs : Get(a[1], a[2], model_parameters)
    \/ \E a \in Inputs, c \in CriteriaValues :
          Put(a[1], a[2], model_parameters, c)
    \/ Clear
    \/ GetStats
    \/ \E n \in 0..MaxBatch : OptimizeForBatch(n)

Spec == Init /\ [][Next]_vars

---------------------------------------------------------------------------
(* Claims about the cache, checked under Spec.                             *)

\* The step is a call (and not the clock moving on); last' describes it.
IsCall == calls' = calls + 1
KeyOf(call) == _generate_cache_key(call.user_input, call.model_id, call.parameters)
TripleOf(call) == Triple(call.user_input, call.model_id, call.parameters)
LastKey == KeyOf(last)
LastTriple == TripleOf(last)

C2_TtlExpiry ==
    [][IsCall =>
        LET key == KeyOf(last') IN
          /\ last'.op = "put" => cache'[key].timestamp = last'.t
          /\ (last'.op = "get" /\ key \in DOMAIN cache) =>
                IF last'.t < cache[key].timestamp + TTL
                THEN /\ last'.ret = Some(cache[key].criteria)
                     /\ cache' = cache
                     /\ stats'.evictions = stats.evictions
                ELSE /\ last'.ret = None
                     /\ cache' = Remove(cache, key)
                     /\ stats'.evictions = stats.evictions + 1
                     /\ stats'.misses = stats.misses + 1
          /\ (last'.op = "get" /\ key \notin DOMAIN cache) =>
                /\ last'.ret = None
                /\ cache' = cache
                /\ stats'.evictions = stats.evictions
                /\ stats'.misses = stats.misses + 1]_vars

\* One put, a hit before the ttl ran out, the get that found the entry
\* expired, and a later get that missed without another eviction.
C2_Witness ==
    /\ last.op = "get"
    /\ last.ret = None
    /\ last.removed = {}
    /\ LastTriple \in stored
    /\ stats = [hits |-> 1, misses |-> 2, evictions |-> 1]

\* C3 (LRU eviction): the access time of an entry is the time of its put or
\* of its latest successful get; a put of a key that is not resident into a
\* cache holding exactly cache_size entries removes exactly one entry, one
\* whose access time no other entry's is older than, leaves every other
\* entry as it was and adds one eviction.
C3_LruEviction ==
    [][IsCall =>
        LET key == KeyOf(last') IN
          /\ last'.op = "put" => access_times'[key] = last'.t
          /\ (last'.op = "get" /\ last'.ret # None) =>
                access_times' = [access_times EXCEPT ![key] = last'.t]
          /\ (last'.op = "get" /\ last'.ret = None) =>
                \A k \in DOMAIN access_times' :
                    access_times'[k] = access_times[k]
          /\ ( /\ last'.op = "put"
               /\ Cardinality(DOMAIN cache) = cache_size
               /\ key \notin DOMAIN cache ) =>
                \E victim \in DOMAIN cache :
                    /\ \A j \in DOMAIN cache :
                          access_times[victim] <= access_times[j]
                    /\ DOMAIN cache' = (DOMAIN cache \ {victim}) \cup {key}
                    /\ \A j \in DOMAIN cache \ {victim} :
                          /\ cache'[j] = cache[j]
                          /\ access_times'[j] = access_times[j]
                    /\ stats'.evictions = stats.evictions + 1]_vars

\* A put into a full cache evicted an entry although an entry that was
\* inserted before it, and read since, stayed resident.
C3_Witness ==
    /\ last.op = "put"
    /\ LastKey \in DOMAIN cache
    /\ \E victim \in last.removed :
          /\ _generate_cache_key(victim.user_input, victim.model_id,
                                 victim.parameters) \notin DOMAIN cache
          /\ \E j \in DOMAIN cache \ {LastKey} :
                /\ cache[j].timestamp < victim.timestamp
                /\ access_times[j] > victim.timestamp

---------------------------------------------------------------------------
(* SpecKey: get and put with the parameter dict in either key order.       *)

KeyInputs == {<<"a", "m1">>, <<"b", "m1">>}

NextKey ==
    \/ Tick
    \/ \E a \in KeyInputs, p \in ParamMaps : Get(a[1], a[2], p)
    \/ \E a \in KeyInputs, p \in ParamMaps, c \in CriteriaValues :
          Put(a[1], a[2], p, c)

SpecKey == Init /\ [][NextKey]_vars

\* The entry was stored for the triple the call names: same text, same
\* model and the same key/value pairs, in whatever order.
SameTriple(entry, call) ==
    /\ entry.user_input = call.user_input
    /\ entry.model_id = call.model_id
    /\ AsMap(entry.parameters) = AsMap(call.parameters)

\* C5 (key canonicalization): parameter dicts holding the same key/value
\* pairs in different key order give the same cache key, so the cache never
\* holds two entries for one triple, and a get returns the criteria that was
\* put for its text and model under the other key order (while within the
\* ttl).
C5_KeyCanonical ==
    /\ [](\A p1, p2 \in ParamMaps : \A a \in KeyInputs :
            AsMap(p1) = AsMap(p2) =>
                _generate_cache_key(a[1], a[2], p1)
                    = _generate_cache_key(a[1], a[2], p2))
    /\ [](\A k1, k2 \in DOMAIN cache :
            SameTriple(cache[k1], cache[k2]) => k1 = k2)
    /\ [][(IsCall /\ last'.op = "get") =>
            \A k \in DOMAIN cache :
                (SameTriple(cache[k], last') /\ last'.t < cache[k].timestamp + TTL)
                    => last'.ret = Some(cache[k].criteria)]_vars

\* A get was served from an entry put under the other key order.
C5_Witness ==
    /\ last.op = "get"
    /\ last.ret # None
    /\ LastKey \in DOMAIN cache
    /\ cache[LastKey].parameters # last.parameters
    /\ AsMap(cache[LastKey].parameters) = AsMap(last.parameters)

---------------------------------------------------------------------------
(* SpecConc: threads call get and put concurrently.  A step is what runs    *)
(* without another thread being able to interfere: taking the lock, the     *)
(* block under the lock (with its release), and each read or write of      *)
(* shared state made outside the lock.                                     *)

ConcInputs == {<<"a", "m1">>, <<"b", "m1">>}

\* get is called: the key is computed before the lock is asked for.
StartGet(t, user_input, model_id) ==
    /\ pc[t] = "idle"
    /\ calls < MaxCalls
    /\ frame' = [frame EXCEPT ![t] = Frame("get", user_input, model_id, None, 0)]
    /\ pc' = [pc EXCEPT ![t] = "acquire"]
    /\ calls' = calls + 1
    /\ UNCHANGED <<cacheVars, now, stored, last, lock, gets_done>>
    /\ UNCHANGED <<analyzerVars, batchVars>>
    /\ UNCHANGED <<answer, pureVars>>

\* put is called.
StartPut(t, user_input, model_id, criteria) ==
    /\ pc[t] = "idle"
    /\ calls < MaxCalls
    /\ frame' = [frame EXCEPT
                    ![t] = Frame("put", user_input, model_id, Some(criteria), 0)]
    /\ pc' = [pc EXCEPT ![t] = "acquire"]
    /\ calls' = calls + 1
    /\ UNCHANGED <<cacheVars, now, stored, last, lock, gets_done>>
    /\ UNCHANGED <<analyzerVars, batchVars>>
    /\ UNCHANGED <<answer, pureVars>>

\* with self.lock: entered once no other thread holds the lock.
Acquire(t) ==
    /\ pc[t] = "acquire"
    /\ lock = 0
    /\ lock' = t
    /\ pc' = [pc EXCEPT ![t] = "locked"]
    /\ UNCHANGED <<cacheVars, now, stored, calls, last, frame, gets_done>>
    /\ UNCHANGED <<analyzerVars, batchVars>>
    /\ UNCHANGED <<answer, pureVars>>

\* The locked block of get; a hit returns from inside it, anything else
\* leaves the block and goes on to count the miss.
GetLocked(t) ==
    /\ pc[t] = "locked"
    /\ frame[t].op = "get"
    /\ lock = t
    /\ LET r == get_locked(Self, frame[t].user_input, frame[t].model_id,
                           model_parameters, now)
       IN  /\ SetSelf(r.self)
           /\ pc' = [pc EXCEPT ![t] = IF r.hit THEN "idle" ELSE "miss_load"]
           /\ gets_done' = IF r.hit THEN gets_done + 1 ELSE gets_done
    /\ lock' = 0
    /\ UNCHANGED <<now, stored, calls, last, frame>>
    /\ UNCHANGED <<analyzerVars, batchVars>>
    /\ UNCHANGED <<answer, pureVars>>

\* self.stats['misses'] += 1 outside the lock: the load of the counter ...
MissLoad(t) ==
    /\ pc[t] = "miss_load"
    /\ frame' = [frame EXCEPT ![t].misses = stats.misses]
    /\ pc' = [pc EXCEPT ![t] = "miss_store"]
    /\ UNCHANGED <<cacheVars, now, stored, calls, last, lock, gets_done>>
    /\ UNCHANGED <<analyzerVars, batchVars>>
    /\ UNCHANGED <<answer, pureVars>>

\* ... and the store of the incremented value; get returns None.
MissStore(t) ==
    /\ pc[t] = "miss_store"
    /\ stats' = [stats EXCEPT !.misses = frame[t].misses + 1]
    /\ pc' = [pc EXCEPT ![t] = "idle"]
    /\ gets_done' = gets_done + 1
    /\ UNCHANGED <<cache, access_times, cache_size, now, stored, calls, last,
                   lock, frame>>
    /\ UNCHANGED <<analyzerVars, batchVars>>
    /\ UNCHANGED <<answer, pureVars>>

\* The locked block of put.
PutLocked(t) ==
    /\ pc[t] = "locked"
    /\ frame[t].op = "put"
    /\ lock = t
    /\ \E oldest_key \in EvictChoices(Self) :
          SetSelf(put(Self, frame[t].user_input, frame[t].model_id,
                      model_parameters, frame[t].criteria[1], oldest_key, now))
    /\ pc' = [pc EXCEPT ![t] = "idle"]
    /\ lock' = 0
    /\ UNCHANGED <<now, stored, calls, last, frame, gets_done>>
    /\ UNCHANGED <<analyzerVars, batchVars>>
    /\ UNCHANGED <<answer, pureVars>>

NextConc ==
    \/ Tick
    \/ \E t \in Threads, a \in ConcInputs : StartGet(t, a[1], a[2])
    \/ \E t \in Threads, a \in ConcInputs, c \in CriteriaValues :
          StartPut(t, a[1], a[2], c)
    \/ \E t \in Threads : Acquire(t)
    \/ \E t \in Threads : GetLocked(t)
    \/ \E t \in Threads : MissLoad(t)
    \/ \E t \in Threads : MissStore(t)
    \/ \E t \in Threads : PutLocked(t)

SpecConc == Init /\ [][NextConc]_vars

\* No thread is inside a call.
Quiescent == \A t \in Threads : pc[t] = "idle"

\* C6 (no lost counter update): once every get that was called has
\* returned, hits + misses equals the number of gets that returned.
C6_NoLostCount ==
    Quiescent => stats.hits + stats.misses = gets_done

---------------------------------------------------------------------------
(* Python str operations used by the response handling.                    *)

\* The characters str.strip() and the regex class \s remove.
Whitespace == {" ", "\n", "\t", "\r"}

Char(s, i) == IF 1 <= i /\ i <= Len(s) THEN SubSeq(s, i, i) ELSE ""
From(s, i) == SubSeq(s, i, Len(s))
StartsWith(s, prefix) ==
    Len(s) >= Len(prefix) /\ SubSeq(s, 1, Len(prefix)) = prefix

\* The least and the greatest element of a non-empty set of numbers.
SetMin(S) == CHOOSE n \in S : \A m \in S : n <= m
SetMax(S) == CHOOSE n \in S : \A m \in S : n >= m

\* The first index at or after i that holds no whitespace (regex \s*).
SkipSpace(s, i) ==
    SetMin({j \in i..Len(s) + 1 : Char(s, j) \notin Whitespace})

lstrip(s) == From(s, SkipSpace(s, 1))

rstrip(s) ==
    SubSeq(s, 1, SetMax({j \in 0..Len(s) : Char(s, j) \notin Whitespace}))

\* str.strip()
strip(s) == rstrip(lstrip(s))

\* str.strip('"')
StripQuotes(s) ==
    LET first == SetMin({j \in 1..Len(s) + 1 : Char(s, j) # "\""})
        last_kept == SetMax({j \in 0..Len(s) : Char(s, j) # "\""})
    IN  SubSeq(s, first, last_kept)

\* str.find from a 1-based position: the first index at or after start where
\* sub begins, or 0.
find(s, sub, start) ==
    LET found == {i \in start..Len(s) - Len(sub) + 1 :
                     SubSeq(s, i, i + Len(sub) - 1) = sub}
    IN  IF found = {} THEN 0 ELSE SetMin(found)

\* sub in s
Contains(s, sub) == find(s, sub, 1) # 0

\* str.replace(old, new)
RECURSIVE replace(_, _, _)
replace(s, old, new) ==
    LET i == find(s, old, 1)
    IN  IF i = 0 THEN s
        ELSE SubSeq(s, 1, i - 1) \o new \o replace(From(s, i + Len(old)), old, new)

Upper == "ABCDEFGHIJKLMNOPQRSTUVWXYZ"
Lower == "abcdefghijklmnopqrstuvwxyz"

\* str.lower()
LowerChar(c) ==
    LET i == find(Upper, c, 1) IN IF i = 0 THEN c ELSE Char(Lower, i)

\* str.lower(), one half of the string after the other
RECURSIVE lower(_)
lower(s) ==
    IF Len(s) = 0 THEN ""
    ELSE IF Len(s) = 1 THEN LowerChar(s)
    ELSE lower(SubSeq(s, 1, Len(s) \div 2)) \o lower(From(s, Len(s) \div 2 + 1))

\* str.split('\n')
RECURSIVE SplitLines(_)
SplitLines(s) ==
    LET n == find(s, "\n", 1)
    IN  IF n = 0 THEN <<s>>
        ELSE <<SubSeq(s, 1, n - 1)>> \o SplitLines(From(s, n + 1))

Digits == "0123456789"
IsDigit(c) == c # "" /\ find(Digits, c, 1) # 0
DigitValue(c) == find(Digits, c, 1) - 1

---------------------------------------------------------------------------
(* Decoded JSON values: null, or a <<type, value>> pair.  A float is    *)
(* held as its value in tenths.                                            *)

JNull == None
JStr(s) == <<"str", s>>
JInt(n) == <<"int", n>>
JFloat(tenths) == <<"float", tenths>>
JList(l) == <<"list", l>>
JDict(d) == <<"dict", d>>

IsStr(v) == v # JNull /\ v[1] = "str"
IsInt(v) == v # JNull /\ v[1] = "int"
IsFloat(v) == v # JNull /\ v[1] = "float"
IsList(v) == v # JNull /\ v[1] = "list"
IsDict(v) == v # JNull /\ v[1] = "dict"

\* The values Python orders against each other and against a number.
IsNumber(v) == IsInt(v) \/ IsFloat(v)

\* The value of a number, in tenths.
Num(v) == IF IsInt(v) THEN 10 * v[2] ELSE v[2]

\* bool(v)
Truthy(v) ==
    /\ v # JNull
    /\ IsNumber(v) => v[2] # 0
    /\ IsStr(v) => v[2] # ""
    /\ IsList(v) => v[2] # <<>>
    /\ IsDict(v) => DOMAIN v[2] # {}

\* dict.get(key, default) on a decoded object
Lookup(data, key, default) == IF key \in DOMAIN data THEN data[key] ELSE default

\* The documents of the model: the texts json.loads decodes, with the value
\* each decodes to.  json.loads raises JSONDecodeError on every other text
\* the model hands it.
JsonDocuments ==
    { <<"{\"query\": \"influenza\"}", [type |-> "object", value |-> ("query" :> JStr("influenza"))]>>,
      <<"{\"query\": \"ab\"}", [type |-> "object", value |-> ("query" :> JStr("ab"))]>>,
      <<"{\"query\": \" influenza vaccine \", \"year_start\": 2024, \"year_end\": 2020}",
        [type |-> "object",
         value |-> ("query" :> JStr(" influenza vaccine ") @@ "year_start" :> JInt(2024)
                    @@ "year_end" :> JInt(2020))]>>,
      <<"{\"query\": \"diabetes\"}",
        [type |-> "object", value |-> ("query" :> JStr("diabetes"))]>>,
      <<"{\n\"query\": \"diabetes\"}",
        [type |-> "object", value |-> ("query" :> JStr("diabetes"))]>>,
      <<"{\"query\": \"diabetes\", \"keywords\": [\"rct\"]}",
        [type |-> "object",
         value |-> ("query" :> JStr("diabetes") @@ "keywords" :> JList(<<JStr("rct")>>))]>>,
      <<"{\"query\": \"diabetes\", \"year_start\": 2020, \"year_end\": 2024}",
        [type |-> "object",
         value |-> ("query" :> JStr("diabetes") @@ "year_start" :> JInt(2020)
                    @@ "year_end" :> JInt(2024))]>>,
      <<"[]", [type |-> "array", value |-> <<>>]>> }

\* json.loads
json_loads(json_str) ==
    IF \E d \in JsonDocuments : d[1] = json_str
    THEN [ok |-> TRUE, data |-> (CHOOSE d \in JsonDocuments : d[1] = json_str)[2]]
    ELSE [ok |-> FALSE, data |-> [type |-> "none", value |-> <<>>]]

---------------------------------------------------------------------------
(* IntentAnalyzer._extract_response_content                                *)

\* A decoded object with no key.
NoKeys == [k \in {} |-> JNull]

\* An OpenAI choice whose message holds the content, and a Gemini
\* candidate whose first part holds the text.
Choice(content) == JDict("message" :> JDict("content" :> content))
Candidate(text) ==
    JDict("content" :> JDict("parts" :> JList(<<JDict("text" :> text)>>)))

\* A response of the adapter to an analyzer set up for OpenAI:
\*   "error"      - a mapping with an 'error' key
\*   "choices"    - a mapping whose first choice carries the content text
\*   "no_choices" - a mapping with an empty choices list
\*   "bad_choice" - a mapping whose first choice is not a mapping
Response(shape, text) ==
    CASE shape = "error" -> JDict("error" :> JStr(text))
      [] shape = "choices" -> JDict("choices" :> JList(<<Choice(JStr(text))>>))
      [] shape = "no_choices" -> JDict("choices" :> JList(<<>>))
      [] shape = "bad_choice" -> JDict("choices" :> JList(<<JStr(text)>>))

\* The prefix of the diagnostic the extractor builds from an 'error' key
\* (the source's prefix is the two-character word for "error" and ": ").
ErrorPrefix == "error: "

\* A call's outcome: it raised, or it returned a value.
Raised == [raised |-> TRUE, value |-> None]
Returned(value) == [raised |-> FALSE, value |-> Some(value)]

\* str(v) of a decoded value that is no list
Str(v) ==
    IF v = JNull THEN "None"
    ELSE IF IsInt(v) THEN ToString(v[2])
    ELSE IF IsStr(v) THEN v[2]
    ELSE "?"

\* ' '.join(str(item) for item in l)
RECURSIVE JoinStr(_)
JoinStr(l) ==
    IF l = <<>> THEN ""
    ELSE Str(Head(l)) \o (IF Len(l) > 1 THEN " " ELSE "") \o JoinStr(Tail(l))

\* The content or text found, made a string and stripped.
AsText(content) ==
    Returned(strip(IF IsList(content) THEN JoinStr(content[2]) ELSE Str(content)))

\* The OpenAI branch: .get on a choice or a message that is no mapping is
\* an AttributeError, which the except clause does not name.
ExtractChoice(choices) ==
    IF ~Truthy(choices) THEN Returned("")
    ELSE IF ~IsDict(choices[2][1]) THEN Raised
    ELSE IF ~IsDict(Lookup(choices[2][1][2], "message", JDict(NoKeys))) THEN Raised
    ELSE AsText(Lookup(Lookup(choices[2][1][2], "message", JDict(NoKeys))[2],
                       "content", JStr("")))

\* The Gemini branch, from the parts of the first candidate's content on.
ExtractParts(parts) ==
    IF ~Truthy(parts) THEN Returned("")
    ELSE IF ~IsDict(parts[2][1]) THEN Raised
    ELSE AsText(Lookup(parts[2][1][2], "text", JStr("")))

\* The Gemini branch.
ExtractCandidate(candidates) ==
    IF ~Truthy(candidates) THEN Returned("")
    ELSE IF ~IsDict(candidates[2][1]) THEN Raised
    ELSE IF ~IsDict(Lookup(candidates[2][1][2], "content", JDict(NoKeys))) THEN Raised
    ELSE ExtractParts(
             Lookup(Lookup(candidates[2][1][2], "content", JDict(NoKeys))[2],
                    "parts", JList(<<>>)))

\* _extract_response_content of an analyzer whose adapter.config.api_type
\* is type.  The response is null, a list, or a mapping: "'error' in
\* response" is a TypeError on null and, ahead of the try block, goes to
\* the caller; response.get on a list is an AttributeError.
ExtractAs(type, response) ==
    IF response = JNull THEN Raised
    ELSE IF IsDict(response) /\ "error" \in DOMAIN response[2]
    THEN Returned(ErrorPrefix \o Str(response[2]["error"]))
    ELSE IF lower(type) = "openai"
    THEN IF IsDict(response)
         THEN ExtractChoice(Lookup(response[2], "choices", JList(<<>>)))
         ELSE Raised
    ELSE IF lower(type) = "gemini"
    THEN IF IsDict(response)
         THEN ExtractCandidate(Lookup(response[2], "candidates", JList(<<>>)))
         ELSE Raised
    ELSE Returned("")

\* The api_type of the analyzer that analyze_intent is called on.
self_api_type == "openai"

_extract_response_content(response) == ExtractAs(self_api_type, response)

---------------------------------------------------------------------------
(* IntentAnalyzer._clean_json_string                                       *)

\* re.sub(r'//.*?\n', '\n', ...)
RECURSIVE StripLineComments(_)
StripLineComments(s) ==
    LET i == find(s, "//", 1)
        n == find(s, "\n", i + 2)
    IN  IF i = 0 \/ n = 0 THEN s
        ELSE SubSeq(s, 1, i - 1) \o "\n" \o StripLineComments(From(s, n + 1))

\* re.sub(r'/\*.*?\*/', '', ..., flags=re.DOTALL)
RECURSIVE StripBlockComments(_)
StripBlockComments(s) ==
    LET i == find(s, "/*", 1)
        e == find(s, "*/", i + 2)
    IN  IF i = 0 \/ e = 0 THEN s
        ELSE SubSeq(s, 1, i - 1) \o StripBlockComments(From(s, e + 2))

\* re.sub(r',\s*X', 'X', ...) for a closing bracket X
RECURSIVE StripTrailingComma(_, _)
StripTrailingComma(s, closing) ==
    LET i == find(s, ",", 1)
        j == SkipSpace(s, i + 1)
    IN  IF i = 0 THEN s
        ELSE IF Char(s, j) = closing
             THEN SubSeq(s, 1, i - 1) \o closing
                  \o StripTrailingComma(From(s, j + 1), closing)
             ELSE SubSeq(s, 1, i) \o StripTrailingComma(From(s, i + 1), closing)

_clean_json_string(json_str) ==
    LET no_line == StripLineComments(json_str)
        no_block == StripBlockComments(no_line)
        quoted == replace(no_block, "'", "\"")
        no_brace == StripTrailingComma(quoted, "}")
        no_bracket == StripTrailingComma(no_brace, "]")
    IN  strip(no_bracket)

---------------------------------------------------------------------------
(* IntentAnalyzer._validate_search_criteria                                *)

\* datetime.now().year
current_year == 2026

ValidQuartiles == {JStr("Q1"), JStr("Q2"), JStr("Q3"), JStr("Q4")}

\* [x for x in list if keep(x)]
RECURSIVE SelectJcr(_)
SelectJcr(l) ==
    IF l = <<>> THEN <<>>
    ELSE (IF Head(l) \in ValidQuartiles THEN <<Head(l)>> ELSE <<>>)
         \o SelectJcr(Tail(l))

RECURSIVE SelectZones(_)
SelectZones(l) ==
    IF l = <<>> THEN <<>>
    ELSE (IF 10 <= Num(Head(l)) /\ Num(Head(l)) <= 40 THEN <<Head(l)>> ELSE <<>>)
         \o SelectZones(Tail(l))

RECURSIVE SelectKeywords(_)
SelectKeywords(l) ==
    IF l = <<>> THEN <<>>
    ELSE (IF strip(Head(l)[2]) # "" THEN <<JStr(strip(Head(l)[2]))>> ELSE <<>>)
         \o SelectKeywords(Tail(l))

\* A pair of range bounds after the swap of a reversed pair.
Ordered(low, high) ==
    IF Num(low) > Num(high) THEN <<high, low>> ELSE <<low, high>>

\* The result is the validated dict, or the call raises: a query that is
\* not a string has no strip(); range bounds that are both truthy are
\* compared with each other and with a number, zones with numbers, and
\* keywords are stripped, each a TypeError or AttributeError on another type.
\* Numbers are ints and floats alike.
_validate_search_criteria(data, original_input) ==
    LET raw_query == Lookup(data, "query", JStr(""))
        query == strip(raw_query[2])
        year_start == Lookup(data, "year_start", JNull)
        year_end == Lookup(data, "year_end", JNull)
        check_years == Truthy(year_start) /\ Truthy(year_end)
        years == Ordered(year_start, year_end)
        min_if == Lookup(data, "min_if", JNull)
        max_if == Lookup(data, "max_if", JNull)
        check_if == Truthy(min_if) /\ Truthy(max_if)
        ifs == Ordered(min_if, max_if)
        cas_zones == Lookup(data, "cas_zones", JList(<<>>))
        jcr_quartiles == Lookup(data, "jcr_quartiles", JList(<<>>))
        keywords == Lookup(data, "keywords", JList(<<>>))
        raises ==
            \/ ~IsStr(raw_query)
            \/ check_years /\ ~(IsNumber(year_start) /\ IsNumber(year_end))
            \/ check_if /\ ~(IsNumber(min_if) /\ IsNumber(max_if))
            \/ IsList(cas_zones)
                 /\ \E i \in 1..Len(cas_zones[2]) : ~IsNumber(cas_zones[2][i])
            \/ IsList(keywords)
                 /\ \E i \in 1..Len(keywords[2]) : ~IsStr(keywords[2][i])
    IN  IF raises THEN Raised
        ELSE Returned(
          [query |-> IF query = "" \/ Len(query) < 3 THEN original_input ELSE query,
           year_start |-> IF check_years THEN years[1] ELSE year_start,
           year_end |-> IF check_years
                        THEN IF Num(years[2]) > 10 * (current_year + 1)
                             THEN JInt(current_year) ELSE years[2]
                        ELSE year_end,
           min_if |-> IF check_if
                      THEN IF Num(ifs[1]) < 0 THEN JInt(0) ELSE ifs[1]
                      ELSE min_if,
           max_if |-> IF check_if
                      THEN IF Num(ifs[2]) > 10 * 100 THEN JInt(100) ELSE ifs[2]
                      ELSE max_if,
           cas_zones |-> IF IsList(cas_zones) THEN SelectZones(cas_zones[2]) ELSE <<>>,
           jcr_quartiles |-> IF IsList(jcr_quartiles)
                             THEN SelectJcr(jcr_quartiles[2]) ELSE <<>>,
           keywords |-> IF IsList(keywords) THEN SelectKeywords(keywords[2]) ELSE <<>>])

---------------------------------------------------------------------------
(* IntentAnalyzer._fallback_parse_response and _extract_basic_query        *)

\* re.search(r'"query"\s*:\s*"([^"]+)"', text): the group of the first
\* match at or after start, or None.
RECURSIVE QueryMatch(_, _)
QueryMatch(text, start) ==
    LET i == find(text, "\"query\"", start)
        colon == SkipSpace(text, i + 7)
        open == SkipSpace(text, colon + 1)
        close == find(text, "\"", open + 1)
    IN  IF i = 0 THEN None
        ELSE IF /\ Char(text, colon) = ":"
                /\ Char(text, open) = "\""
                /\ close > open + 1
             THEN Some(SubSeq(text, open + 1, close - 1))
             ELSE QueryMatch(text, i + 1)

\* The first line that mentions query and holds a colon, or 0.
RECURSIVE QueryLine(_, _)
QueryLine(lines, i) ==
    IF i > Len(lines) THEN 0
    ELSE IF Contains(lower(lines[i]), "query") /\ Contains(lines[i], ":")
         THEN i ELSE QueryLine(lines, i + 1)

_extract_basic_query(response) ==
    LET lines == SplitLines(response)
        i == QueryLine(lines, 1)
    IN  IF i # 0
        THEN StripQuotes(strip(From(lines[i], find(lines[i], ":", 1) + 1)))
        ELSE SubSeq(response, 1, Min(100, Len(response)))

\* re.findall(r'(20\d{2})', text) as the set of the years found.
RECURSIVE YearMatches(_)
YearMatches(text) ==
    LET i == find(text, "20", 1)
    IN  IF i = 0 THEN {}
        ELSE IF IsDigit(Char(text, i + 2)) /\ IsDigit(Char(text, i + 3))
             THEN {2000 + 10 * DigitValue(Char(text, i + 2))
                        + DigitValue(Char(text, i + 3))}
                  \cup YearMatches(From(text, i + 4))
             ELSE YearMatches(From(text, i + 1))

\* A heuristic stage that is content with one year.
FallbackAnyYear(ai_response, original_input) ==
    LET query_match == QueryMatch(ai_response, 1)
        query == IF query_match # None THEN query_match[1]
                 ELSE _extract_basic_query(ai_response)
        years == YearMatches(ai_response)
    IN  SearchCriteria(IF query = "" THEN original_input ELSE query,
                       IF years # {} THEN JInt(SetMin(years)) ELSE None,
                       IF years # {} THEN JInt(SetMax(years)) ELSE None)

_fallback_parse_response(ai_response, original_input) ==
    LET query_match == QueryMatch(ai_response, 1)
        query == IF query_match # None THEN query_match[1]
                 ELSE _extract_basic_query(ai_response)
        years == YearMatches(ai_response)
        two == Cardinality(years) >= 2
    IN  SearchCriteria(IF query = "" THEN original_input ELSE query,
                       IF two THEN JInt(SetMin(years)) ELSE None,
                       IF two THEN JInt(SetMax(years)) ELSE None)

---------------------------------------------------------------------------
(* IntentAnalyzer._parse_ai_response_with_validation                       *)

\* re.search(r'```json\s*(\{.*?\})\s*```', text, re.DOTALL): the group of
\* the first match at or after start, or None.
\* The fence the regex looks for is three backquotes; a string of this
\* notation cannot hold a backquote, so '~' stands for it in every text.
Fence == "~~~"

RECURSIVE ClosingBrace(_, _)
ClosingBrace(text, from) ==
    LET k == find(text, "}", from)
    IN  IF k = 0 THEN 0
        ELSE IF StartsWith(From(text, SkipSpace(text, k + 1)), Fence) THEN k
        ELSE ClosingBrace(text, k + 1)

RECURSIVE JsonMatch(_, _)
JsonMatch(text, start) ==
    LET i == find(text, Fence \o "json", start)
        open == SkipSpace(text, i + 7)
        close == ClosingBrace(text, open + 1)
    IN  IF i = 0 THEN None
        ELSE IF Char(text, open) = "{" /\ close # 0
             THEN Some(SubSeq(text, open, close))
             ELSE JsonMatch(text, i + 1)

\* The text handed to the decoder: the group of the fence match, or the
\* whole response stripped.
JsonSource(json_match, ai_response) ==
    IF json_match # None THEN json_match[1] ELSE strip(ai_response)

\* SearchCriteria(query=validated_data.get('query', original_input), ...)
FromValidated(validated) ==
    [SearchCriteria(validated.query, validated.year_start, validated.year_end)
        EXCEPT !.min_if = validated.min_if,
               !.max_if = validated.max_if,
               !.cas_zones = validated.cas_zones,
               !.jcr_quartiles = validated.jcr_quartiles,
               !.keywords = validated.keywords]

\* The try block once the validator is back: its exception is none of
\* those the parser catches.
AfterValidate(validated) ==
    IF validated.raised THEN Raised
    ELSE Returned(FromValidated(validated.value[1]))

\* The try block once json.loads is back: JSONDecodeError goes to the
\* heuristic stage, and data.get on a decoded value that is no mapping is
\* an AttributeError, which is not caught here.
AfterDecode(decoded, ai_response, original_input) ==
    IF ~decoded.ok
    THEN Returned(_fallback_parse_response(ai_response, original_input))
    ELSE IF decoded.data.type # "object" THEN Raised
    ELSE AfterValidate(_validate_search_criteria(decoded.data.value,
                                                 original_input))

_parse_ai_response_with_validation(ai_response, original_input) ==
    AfterDecode(
        json_loads(_clean_json_string(JsonSource(JsonMatch(ai_response, 1),
                                                 ai_response))),
        ai_response, original_input)

---------------------------------------------------------------------------
(* IntentAnalyzer.analyze_intent                                           *)

\* The model the analyzer was set up with; it is assigned during
\* construction only, as are the model parameters.
self_model_id == "m1"

\* The texts analyze_intent is called with.
UserInputs == {"flu", "no idea"}

\* What send_message can do: raise, or return one of these responses.
AiTexts ==
    {"{\"query\": \"influenza\"}", "{\"query\": \"ab\"}", "[]", "no idea", "  ",
     "\"query\": \"ab\" from 2020 to 2030"}
Responses ==
    {Response("error", "timeout"), Response("bad_choice", "")}
        \cup {Response("choices", text) : text \in AiTexts}
BackendOutcomes == {Raised} \cup {Returned(response) : response \in Responses}

\* The part of the analyzer analyze_intent works on.  dispatches counts the
\* calls of send_message that were made.
Analyzer ==
    [analysis_cache |-> Self, performance_stats |-> performance_stats,
     dispatches |-> dispatches]

SetAnalyzer(a) ==
    /\ SetSelf(a.analysis_cache)
    /\ performance_stats' = a.performance_stats
    /\ dispatches' = a.dispatches

\* self.performance_stats[counter] += 1.  The dict is not locked: when the
\* statement runs in two threads at once one of the increments can be
\* lost, and lost names the counters for which this one is.
Count(stats_dict, counter, lost) ==
    IF counter \in lost THEN stats_dict
    ELSE [stats_dict EXCEPT ![counter] = @ + 1]

\* Mutant: a cache hit counted as a backend call.
CountHitAsCall(a, lost) ==
    [a EXCEPT !.performance_stats = Count(@, "ai_calls", lost)]

\* self.performance_stats['cache_hits'] += 1
CountCacheHit(a, lost) ==
    [a EXCEPT !.performance_stats = Count(@, "cache_hits", lost)]

\* The lookup of analyze_intent is back: a hit is counted and returned,
\* anything else goes on to the prompt and the dispatch.
Looked(a, looked, lost) ==
    IF looked.ret # None
    THEN [a |-> CountCacheHit([a EXCEPT !.analysis_cache = looked.self], lost),
          hit |-> TRUE, ret |-> looked.ret]
    ELSE [a |-> [a EXCEPT !.analysis_cache = looked.self,
                          !.dispatches = @ + 1],
          hit |-> FALSE, ret |-> None]

\* self.performance_stats['total_analyses'] += 1
CountAnalysis(a, lost) ==
    [a EXCEPT !.performance_stats = Count(@, "total_analyses", lost)]

\* analyze_intent up to the call of send_message: the count of the
\* analysis, the cache lookup and, on a miss, the prompt and the dispatch.
begin_analysis(a, user_input, t, lost) ==
    IF enable_cache
    THEN Looked(CountAnalysis(a, lost),
                get(a.analysis_cache, user_input, self_model_id,
                    model_parameters, t),
                lost)
    ELSE [a |-> [CountAnalysis(a, lost) EXCEPT !.dispatches = @ + 1],
          hit |-> FALSE, ret |-> None]

\* Mutant: a fallback that loses the input.
FallbackEmpty(user_input) == SearchCriteria("", None, None)

\* SearchCriteria(query=user_input)
Fallback(user_input) == SearchCriteria(user_input, None, None)

\* What the try block makes of the outcome of send_message, state apart:
\* the stage it ends in and the criteria it arrives at.  The stages
\* "dispatch", "extract" and "parse" end in the except clause, "empty" in
\* the early return on an empty response, "parsed" after the parser.
Ended(stage, criteria) == [stage |-> stage, criteria |-> criteria]

\* ... once the parser is back
AfterParse(user_input, parsed) ==
    IF parsed.raised THEN Ended("parse", Fallback(user_input))
    ELSE Ended("parsed", parsed.value[1])

\* ... once the extractor is back with a text
AfterExtract(user_input, ai_response) ==
    IF ai_response = "" \/ strip(ai_response) = ""
    THEN Ended("empty", Fallback(user_input))
    ELSE AfterParse(user_input,
                    _parse_ai_response_with_validation(ai_response, user_input))

\* ... once send_message is back with a response
AfterDispatch(user_input, extracted) ==
    IF extracted.raised THEN Ended("extract", Fallback(user_input))
    ELSE AfterExtract(user_input, extracted.value[1])

Resolve(user_input, outcome) ==
    IF outcome.raised THEN Ended("dispatch", Fallback(user_input))
    ELSE AfterDispatch(user_input, _extract_response_content(outcome.value[1]))

\* The stages at which an exception reaches the except clause.
RaisingStages == {"dispatch", "extract", "parse"}

\* Resolve, computed once for the inputs and outcomes of the model.
Resolved ==
    [user_input \in UserInputs, outcome \in BackendOutcomes |->
        Resolve(user_input, outcome)]

\* Mutant: every result is stored.
StoreAlways(criteria, user_input) == enable_cache

\* self.enable_cache and self.analysis_cache and not criteria.query == user_input
ShouldStore(criteria, user_input) ==
    enable_cache /\ ~(criteria.query = user_input)

\* self.performance_stats['ai_calls'] += 1, reached when send_message
\* returned
CountCall(a, stage, lost) ==
    IF stage = "dispatch" THEN a
    ELSE [a EXCEPT !.performance_stats = Count(@, "ai_calls", lost)]

\* The except clause: self.performance_stats['errors'] += 1
CountError(a, lost) ==
    [a EXCEPT !.performance_stats = Count(@, "errors", lost)]

\* The end of analyze_intent for a try block that ended as r: the except
\* clause, the early return, or the put and the return of the criteria.
\* stored tells whether put was called.
Conclude(a, user_input, r, oldest_key, t) ==
    IF r.stage = "parsed" /\ ShouldStore(r.criteria, user_input)
    THEN [a |-> [a EXCEPT
                    !.analysis_cache =
                        put(@, user_input, self_model_id, model_parameters,
                            r.criteria, oldest_key, t)],
          stored |-> TRUE, stage |-> r.stage, ret |-> r.criteria]
    ELSE [a |-> a, stored |-> FALSE, stage |-> r.stage, ret |-> r.criteria]

\* The counters of the try block and its except clause.
Counted(a, stage, lost) ==
    IF stage \in RaisingStages
    THEN CountError(CountCall(a, stage, lost), lost)
    ELSE CountCall(a, stage, lost)

\* analyze_intent from the return of send_message on: the try block and
\* its except clause.
finish_analysis(a, user_input, outcome, oldest_key, t, lost) ==
    Conclude(Counted(a, Resolved[user_input, outcome].stage, lost),
             user_input, Resolved[user_input, outcome], oldest_key, t)

---------------------------------------------------------------------------
(* SpecResolve: analyze_intent called from one thread, each call one step. *)

\* A concurrent.futures.Future of the pool: the task's argument, how far
\* the task is, its result once it has one, and how the batch collected it.
Future(user_input) ==
    [user_input |-> user_input, state |-> "pending", result |-> None,
     collected |-> "none"]

\* Whether the thread running task i (0: the calling thread) can be inside
\* analyze_intent together with a pool thread.
Racing(i) ==
    \E j \in 1..Len(futures) :
        j # i /\ futures[j].state \in {"running", "done"}
              /\ futures[j].collected # "result"

\* The sets of counters whose increment can be lost in a step of thread i.
LostChoices(i, counters) == IF Racing(i) THEN SUBSET counters ELSE {{}}

\* The record of a call of analyze_intent: its argument, the clock reading
\* it made, how it ended ("hit", or the stage of the try block) and the
\* criteria it returned.
ResolveCall(user_input, stage, ret) ==
    [op |-> "analyze_intent", user_input |-> user_input, t |-> now,
     stage |-> stage, ret |-> ret]

InitResolve ==
    /\ InitPure
    /\ InitCache
    /\ InitThreads
    /\ InitAnalyzer
    /\ enable_cache \in BOOLEAN
    /\ enable_async = TRUE
    /\ now = 0
    /\ stored = {}
    /\ calls = 0
    /\ last = NoCall

\* The call returns: the state it leaves and its record.
Return(user_input, result) ==
    /\ SetAnalyzer(result.a)
    /\ last' = ResolveCall(user_input, result.stage, result.ret)
    /\ stored' = IF result.stored
                 THEN stored \cup {Triple(user_input, self_model_id,
                                          model_parameters)}
                 ELSE stored

\* analyze_intent after the lookup found the criteria.
ReturnHit(user_input, looked) ==
    /\ Return(user_input,
              [a |-> looked.a, stored |-> FALSE, stage |-> "hit",
               ret |-> looked.ret[1]])
    /\ answer' = None

\* analyze_intent after the lookup found nothing.
ReturnResolved(user_input, outcome, looked) ==
    /\ \E oldest_key \in EvictChoices(looked.a.analysis_cache),
          lost \in LostChoices(0, {"ai_calls", "errors"}) :
           Return(user_input,
                  finish_analysis(looked.a, user_input, outcome, oldest_key, now,
                                  lost))
    /\ answer' = Some(outcome)

\* The lookup is over.
AfterLookup(user_input, outcome, looked) ==
    IF looked.hit THEN ReturnHit(user_input, looked)
    ELSE ReturnResolved(user_input, outcome, looked)

\* analyze_intent, called outside a running batch.
AnalyzeIntent(user_input, outcome) ==
    /\ calls < MaxResolves
    /\ batch_pc \in {"idle", "returned"}
    /\ \E lost \in LostChoices(0, {"total_analyses", "cache_hits"}) :
          AfterLookup(user_input, outcome,
                      begin_analysis(Analyzer, user_input, now, lost))
    /\ calls' = calls + 1
    /\ UNCHANGED <<now, threadVars, enable_cache, enable_async, batchVars>>
    /\ UNCHANGED pureVars

NextResolve ==
    \/ Tick
    \/ \E user_input \in UserInputs, outcome \in BackendOutcomes :
          AnalyzeIntent(user_input, outcome)

SpecResolve == InitResolve /\ [][NextResolve]_vars

\* The step is a call of analyze_intent.
IsResolve == calls' = calls + 1 /\ last'.op = "analyze_intent"

\* The key analyze_intent looks a text up under.
KeyFor(user_input) ==
    _generate_cache_key(user_input, self_model_id, model_parameters)

\* after holds no entry that before does not hold, and none changed.
NothingStored(before, after) ==
    /\ DOMAIN after \subseteq DOMAIN before
    /\ \A k \in DOMAIN after : after[k] = before[k]

\* C7 as stated (exception containment, cache contents unchanged): a call
\* of analyze_intent in which the dispatch, the extraction or the parsing
\* raises returns the fallback for its input, counts one error and leaves
\* the cache as it was.
C7_CacheUntouched ==
    [][IsResolve /\ last'.stage \in RaisingStages
          => /\ last'.ret = SearchCriteria(last'.user_input, None, None)
             /\ performance_stats'.errors = performance_stats.errors + 1
             /\ cache' = cache]_vars

\* C7 (exception containment): a call of analyze_intent in which the
\* dispatch, the extraction or the parsing raises returns the fallback for
\* its input (query the input, the other fields empty), counts exactly one
\* error and stores nothing; the only entry that can leave the cache is the
\* input's own expired entry, which the lookup before the dispatch removes.
C7_ExceptionContainment ==
    [][IsResolve /\ last'.stage \in RaisingStages
          => /\ last'.ret = SearchCriteria(last'.user_input, None, None)
             /\ performance_stats'.errors = performance_stats.errors + 1
             /\ NothingStored(cache, cache')
             /\ \A k \in DOMAIN cache \ DOMAIN cache' :
                   k = KeyFor(last'.user_input) /\ ~Fresh(cache[k], now)]_vars

\* An exception of each stage was contained, one of them after the lookup
\* removed the input's expired entry.
C7_Witness ==
    /\ last.op = "analyze_intent"
    /\ last.stage = "parse"
    /\ performance_stats.errors = 2
    /\ stats.evictions = 1
    /\ cache = <<>>

\* C8 (degenerate results are not cached): the cache never holds criteria
\* whose query is the text they are stored under; a call of analyze_intent
\* that returns criteria whose query equals its input stores nothing and
\* leaves no entry for that input; and a repeat of the call misses again,
\* dispatches again and counts no cache hit.
C8_DegenerateNotCached ==
    /\ [](\A k \in DOMAIN cache : cache[k].criteria.query # cache[k].user_input)
    /\ [][IsResolve /\ last'.ret.query = last'.user_input
            => /\ NothingStored(cache, cache')
               /\ KeyFor(last'.user_input) \notin DOMAIN cache']_vars
    /\ [][(/\ IsResolve
           /\ last.op = "analyze_intent"
           /\ last.ret.query = last.user_input
           /\ last'.user_input = last.user_input)
            => /\ last'.stage # "hit"
               /\ enable_cache => stats'.misses = stats.misses + 1
               /\ dispatches' = dispatches + 1
               /\ performance_stats'.cache_hits = performance_stats.cache_hits]_vars

\* A short query was replaced by the input, and the repeat of the call was
\* dispatched again, with the cache on.
C8_Witness ==
    /\ enable_cache
    /\ last.op = "analyze_intent"
    /\ last.stage = "parsed"
    /\ last.ret.query = last.user_input
    /\ dispatches = 2
    /\ stats.misses = 2
    /\ performance_stats.total_analyses = 2
    /\ cache = <<>>

\* C9 (cache-hit path): a call of analyze_intent that resolves criteria
\* whose query differs from the input stores them under the input; and a
\* call for a text whose entry is resident and within its ttl returns the
\* criteria of that entry, counts one cache hit, and makes no dispatch
\* (ai_calls and the number of dispatches stay).
C9_CacheHitPath ==
    /\ [][(/\ IsResolve
           /\ enable_cache
           /\ last'.stage # "hit"
           /\ last'.ret.query # last'.user_input)
            => LET k == KeyFor(last'.user_input)
               IN  /\ k \in DOMAIN cache'
                   /\ cache'[k].criteria = last'.ret
                   /\ cache'[k].timestamp = now]_vars
    /\ [][IsResolve /\ enable_cache
            => LET k == KeyFor(last'.user_input)
               IN  k \in DOMAIN cache /\ Fresh(cache[k], now)
                     => /\ last'.stage = "hit"
                        /\ last'.ret = cache[k].criteria
                        /\ performance_stats'.cache_hits
                              = performance_stats.cache_hits + 1
                        /\ performance_stats'.ai_calls = performance_stats.ai_calls
                        /\ dispatches' = dispatches]_vars

\* A second call for a text was served from the cache after time passed.
C9_Witness ==
    /\ last.op = "analyze_intent"
    /\ last.stage = "hit"
    /\ last.ret.query = "influenza"
    /\ last.t > 0
    /\ performance_stats.cache_hits = 1
    /\ performance_stats.ai_calls = 1
    /\ dispatches = 1

\* The backend was asked in the last call and answered with a response
\* that carries an error.
AnsweredError(asked) ==
    /\ asked # None
    /\ ~asked[1].raised
    /\ IsDict(asked[1].value[1])
    /\ "error" \in DOMAIN asked[1].value[1][2]

\* C18 (backend error envelope): a call of analyze_intent that the backend
\* answers with a response carrying an error returns the fallback for its
\* input, never criteria whose query is the extractor's diagnostic, and
\* stores nothing: the cache gains no entry and holds none for the input.
C18_ErrorEnvelope ==
    [][IsResolve /\ AnsweredError(answer')
          => /\ last'.ret = SearchCriteria(last'.user_input, None, None)
             /\ ~StartsWith(last'.ret.query, ErrorPrefix)
             /\ NothingStored(cache, cache')
             /\ KeyFor(last'.user_input) \notin DOMAIN cache']_vars

\* C19 (empty response): a call of analyze_intent whose extracted text is
\* empty or blank returns the fallback for its input, stores nothing and
\* counts one error, as a call whose dispatch raised does.
C19_EmptyResponse ==
    [][IsResolve /\ last'.stage = "empty"
          => /\ last'.ret = SearchCriteria(last'.user_input, None, None)
             /\ NothingStored(cache, cache')
             /\ performance_stats'.errors = performance_stats.errors + 1]_vars

\* C27 (returned criteria are normalized): the criteria a call of
\* analyze_intent returns, also those of the heuristic stage, have a query
\* of at least 3 characters after trimming or equal to the input, and a
\* year_end, when there is one, of at most current_year + 1.
C27_ReturnedNormalized ==
    [][IsResolve
          => /\ Len(strip(last'.ret.query)) >= 3
                  \/ last'.ret.query = last'.user_input
             /\ last'.ret.year_end # None
                  => Num(last'.ret.year_end) <= 10 * (current_year + 1)]_vars

---------------------------------------------------------------------------
(* SpecBatch: analyze_batch_intents.  With the pool, the caller submits    *)
(* one task per input and then collects the futures in order, while the    *)
(* workers run the tasks; a task is two steps, up to its dispatch and      *)
(* from the backend's answer on.  Without the pool the caller runs         *)
(* analyze_intent on the inputs in turn.                                   *)

BatchOutcomes ==
    {Raised, Returned(Response("choices", "{\"query\": \"influenza\"}"))}

\* The lists analyze_batch_intents is called with.
BatchInputs ==
    UNION {[1..n -> UserInputs] : n \in 1..MaxBatchLen}

InitBatch ==
    /\ InitPure
    /\ InitCache
    /\ InitThreads
    /\ InitAnalyzer
    /\ enable_cache = TRUE
    /\ enable_async \in BOOLEAN
    /\ now = 0
    /\ stored = {}
    /\ calls = 0
    /\ last = NoCall

\* analyze_batch_intents is called.
BatchStart(inputs) ==
    /\ batch_pc = "idle"
    /\ calls < MaxBatchCalls
    /\ user_inputs' = inputs
    /\ batch_pc' = IF enable_async THEN "submit" ELSE "sync"
    /\ calls' = calls + 1
    /\ UNCHANGED <<cacheVars, now, stored, last, threadVars, analyzerVars,
                   input_text, futures, results>>
    /\ UNCHANGED <<answer, pureVars>>

\* One turn of "for input_text in user_inputs": the task is submitted.
Submit ==
    /\ batch_pc = "submit"
    /\ LET k == Len(futures) + 1
       IN  /\ input_text' = user_inputs[k]
           /\ futures' = Append(futures, Future(user_inputs[k]))
           /\ batch_pc' = IF k = Len(user_inputs) THEN "collect" ELSE "submit"
    /\ UNCHANGED <<cacheVars, now, stored, calls, last, threadVars, analyzerVars,
                   user_inputs, results>>
    /\ UNCHANGED <<answer, pureVars>>

\* The task a free worker takes next: the pool's queue is first in, first
\* out, and max_workers tasks run at a time.
NextTask ==
    LET pending == {i \in 1..Len(futures) : futures[i].state = "pending"}
        running == {i \in 1..Len(futures) : futures[i].state = "running"}
    IN  IF pending # {} /\ Cardinality(running) < MaxWorkers
        THEN {SetMin(pending)} ELSE {}

\* Task i is through its lookup.
TaskLooked(i, looked) ==
    /\ SetAnalyzer(looked.a)
    /\ futures' = [futures EXCEPT
                      ![i].state = IF looked.hit THEN "done" ELSE "running",
                      ![i].result = looked.ret]

\* A worker runs a task up to its dispatch, or to its return on a hit.
TaskBegin(i) ==
    /\ i \in NextTask
    /\ \E lost \in LostChoices(i, {"total_analyses", "cache_hits"}) :
          TaskLooked(i, begin_analysis(Analyzer, futures[i].user_input, now, lost))
    /\ UNCHANGED <<now, stored, calls, last, threadVars, enable_cache,
                   enable_async, user_inputs, input_text, results, batch_pc>>
    /\ UNCHANGED <<answer, pureVars>>

\* An exception leaves analyze_intent from the code before its try block
\* (the lookup serializes the parameters, the prompt is built): the future
\* holds the exception.
TaskRaise(i) ==
    /\ i \in NextTask
    /\ \E lost \in LostChoices(i, {"total_analyses"}) :
          performance_stats' = Count(performance_stats, "total_analyses", lost)
    /\ futures' = [futures EXCEPT ![i].state = "failed"]
    /\ UNCHANGED <<cacheVars, now, stored, calls, last, threadVars, enable_cache,
                   enable_async, dispatches, user_inputs, input_text, results,
                   batch_pc>>
    /\ UNCHANGED <<answer, pureVars>>

\* Task i returns; the call is on record as the last one completed.
TaskReturn(i, result) ==
    /\ SetAnalyzer(result.a)
    /\ futures' = [futures EXCEPT ![i].state = "done",
                                  ![i].result = Some(result.ret)]
    /\ last' = ResolveCall(futures[i].user_input, result.stage, result.ret)

\* The backend answers a task, which runs to its end.
TaskFinish(i, outcome) ==
    /\ i \in 1..Len(futures)
    /\ futures[i].state = "running"
    /\ \E oldest_key \in EvictChoices(Self),
          lost \in LostChoices(i, {"ai_calls", "errors"}) :
          TaskReturn(i, finish_analysis(Analyzer, futures[i].user_input, outcome,
                                        oldest_key, now, lost))
    /\ UNCHANGED <<now, stored, calls, threadVars, enable_cache,
                   enable_async, user_inputs, input_text, results, batch_pc>>
    /\ UNCHANGED <<answer, pureVars>>

\* Mutant: the futures collected, and the inputs taken, from the last one.
CollectingBackwards == Len(user_inputs) - Len(results)

\* The place of the future "for future in futures" is at.
Collecting == Len(results) + 1

\* The batch is over once every future has been collected.
AfterCollect == IF Collecting = Len(futures) THEN "returned" ELSE "collect"

\* future.result(timeout=60) returns the task's result.
CollectResult ==
    /\ batch_pc = "collect"
    /\ futures[Collecting].state = "done"
    /\ results' = Append(results, futures[Collecting].result[1])
    /\ futures' = [futures EXCEPT ![Collecting].collected = "result"]
    /\ batch_pc' = AfterCollect
    /\ UNCHANGED <<cacheVars, now, stored, calls, last, threadVars, analyzerVars,
                   user_inputs, input_text>>
    /\ UNCHANGED <<answer, pureVars>>

\* future.result(timeout=60) raises, the task's exception or TimeoutError
\* for a task that is not done: the except clause appends
\* SearchCriteria(query=input_text), input_text being the variable of the
\* submit loop.  The task is not cancelled.
CollectFallback ==
    /\ batch_pc = "collect"
    /\ futures[Collecting].state # "done"
    /\ results' = Append(results, Fallback(input_text))
    /\ futures' = [futures EXCEPT
                      ![Collecting].collected =
                          IF futures[Collecting].state = "failed"
                          THEN "failed" ELSE "timeout"]
    /\ batch_pc' = AfterCollect
    /\ UNCHANGED <<cacheVars, now, stored, calls, last, threadVars, analyzerVars,
                   user_inputs, input_text>>
    /\ UNCHANGED <<answer, pureVars>>

\* Without the pool: analyze_intent returns and its result is appended.
SyncReturn(result) ==
    /\ SetAnalyzer(result.a)
    /\ results' = Append(results, result.ret)

\* Without the pool: analyze_intent is through its lookup.
SyncLooked(user_input, outcome, looked) ==
    IF looked.hit
    THEN SyncReturn([a |-> looked.a, ret |-> looked.ret[1]])
    ELSE \E oldest_key \in EvictChoices(looked.a.analysis_cache) :
            SyncReturn(finish_analysis(looked.a, user_input, outcome,
                                       oldest_key, now, {}))

\* Without the pool: analyze_intent on the next input, in the caller.
SyncItem(outcome) ==
    /\ batch_pc = "sync"
    /\ SyncLooked(user_inputs[Collecting], outcome,
                  begin_analysis(Analyzer, user_inputs[Collecting], now, {}))
    /\ batch_pc' = IF Collecting = Len(user_inputs) THEN "returned" ELSE "sync"
    /\ UNCHANGED <<now, stored, calls, last, threadVars, enable_cache,
                   enable_async, user_inputs, input_text, futures>>
    /\ UNCHANGED <<answer, pureVars>>

\* Without the pool: an exception that leaves analyze_intent leaves
\* analyze_batch_intents.
SyncRaise ==
    /\ batch_pc = "sync"
    /\ performance_stats' = Count(performance_stats, "total_analyses", {})
    /\ batch_pc' = "raised"
    /\ UNCHANGED <<cacheVars, now, stored, calls, last, threadVars, enable_cache,
                   enable_async, dispatches, user_inputs, input_text, futures,
                   results>>
    /\ UNCHANGED <<answer, pureVars>>

NextBatch ==
    \/ \E inputs \in BatchInputs : BatchStart(inputs)
    \/ Submit
    \/ \E i \in 1..MaxBatchLen : TaskBegin(i)
    \/ \E i \in 1..MaxBatchLen : TaskRaise(i)
    \/ \E i \in 1..MaxBatchLen, outcome \in BatchOutcomes : TaskFinish(i, outcome)
    \/ CollectResult
    \/ CollectFallback
    \/ \E outcome \in BatchOutcomes : SyncItem(outcome)
    \/ SyncRaise
    \/ \E user_input \in UserInputs, outcome \in BatchOutcomes :
          /\ batch_pc = "idle"
          /\ calls < MaxBatchCalls
          /\ AnalyzeIntent(user_input, outcome)

SpecBatch == InitBatch /\ [][NextBatch]_vars

\* C10 (batch fallback): in the list analyze_batch_intents returns, the
\* place of a task that timed out or failed holds the fallback for that
\* place's own input, and every other place holds its task's result.
C10_BatchFallbackOwnInput ==
    batch_pc = "returned" /\ enable_async
      => \A i \in 1..Len(results) :
            IF futures[i].collected = "result"
            THEN results[i] = futures[i].result[1]
            ELSE results[i] = SearchCriteria(user_inputs[i], None, None)

\* The criteria analyze_intent can return for a text in the state at hand:
\* those of the text's cache entry, or what the try block makes of an
\* answer of the backend.
PossibleResults(user_input) ==
    {Resolved[user_input, outcome].criteria : outcome \in BatchOutcomes}
        \cup {cache[k].criteria : k \in DOMAIN cache \cap {KeyFor(user_input)}}

---------------------------------------------------------------------------
(* The parsing functions called on their own.  The analyzer is as          *)
(* constructed and stays so; a behaviour is one call of one function on    *)
(* one argument.                                                           *)

\* The analyzer as constructed, never called.
Constructed ==
    /\ InitCache
    /\ InitThreads
    /\ InitAnalyzer
    /\ enable_cache = TRUE
    /\ enable_async = TRUE
    /\ now = 0
    /\ stored = {}
    /\ calls = 0
    /\ last = NoCall

analyzerState ==
    <<cacheVars, now, stored, calls, last, threadVars, analyzerVars, batchVars,
      answer>>

\* The raw texts the parser is given: a beginning and an end, of which
\* some hold a JSON document, a "query" fragment, a line that mentions
\* query, or years.
Heads ==
    {"", "no idea", "Query: flu shots", "\"query\": \"flu\"",
     "{\"query\": \"influenza\"}", "~~~json\n{\"query\": \"influenza\"}\n~~~"}
Tails ==
    {"", " in 2019", " from 2019 to 2023", "\nquery : x y", "  ",
     " 2023 back to 2019 via 2021", " 2020 and 2020", " 1999 to 2005"}

\* Objects as a model writes them: valid but for a trailing comma, single-
\* quoted delimiters or a comment, each with the value it stands for.
LenientObjects ==
    { <<"{\"query\": \"diabetes\",}", "query" :> JStr("diabetes")>>,
      <<"{'query': 'diabetes'}", "query" :> JStr("diabetes")>>,
      <<"{/* topic */\"query\": \"diabetes\"}", "query" :> JStr("diabetes")>>,
      <<"{// topic\n\"query\": \"diabetes\"}", "query" :> JStr("diabetes")>>,
      <<"{\"query\": \"diabetes\", \"keywords\": [\"rct\",]}",
        "query" :> JStr("diabetes") @@ "keywords" :> JList(<<JStr("rct")>>)>>,
      <<"{'query': 'diabetes', 'year_start': 2020, 'year_end': 2024,}",
        "query" :> JStr("diabetes") @@ "year_start" :> JInt(2020)
          @@ "year_end" :> JInt(2024)>>,
      <<"{\"query\": \"crohn's disease\", \"min_if\": 5,}",
        "query" :> JStr("crohn's disease") @@ "min_if" :> JInt(5)>> }

\* A json-tagged fenced block holding the object, with noise around it.
Fenced(object, before, after) ==
    before \o Fence \o "json\n" \o object \o "\n" \o Fence \o after
NoiseBefore == {"", "Sure, here it is:\n"}
NoiseAfter == {"", "\nHope this helps."}
FencedTexts ==
    {Fenced(o[1], before, after) :
       o \in LenientObjects, before \in NoiseBefore, after \in NoiseAfter}

ParseTexts ==
    ({head \o tail : head \in Heads, tail \in Tails} \ {""}) \cup FencedTexts

InitParse ==
    /\ Constructed
    /\ given \in ParseTexts
    /\ given_input \in UserInputs
    /\ api_type = "openai"
    /\ yielded = None
    /\ again = None

\* _parse_ai_response_with_validation(given, given_input) is called.
ParseResponse ==
    /\ yielded = None
    /\ yielded' = _parse_ai_response_with_validation(given, given_input)
    /\ UNCHANGED <<analyzerState, given, given_input, api_type, again>>

\* _fallback_parse_response(given, given_input) is called.
FallbackParse ==
    /\ yielded = None
    /\ yielded' = Returned(_fallback_parse_response(given, given_input))
    /\ UNCHANGED <<analyzerState, given, given_input, api_type, again>>

NextParse == ParseResponse \/ FallbackParse

SpecParse == InitParse /\ [][NextParse]_vars

\* A text with nothing to parse: no JSON document the decoder accepts, no
\* "query": "..." fragment, and no line that mentions query with a colon.
Unparsable(ai_response) ==
    /\ ai_response # ""
    /\ ~json_loads(_clean_json_string(
            JsonSource(JsonMatch(ai_response, 1), ai_response))).ok
    /\ QueryMatch(ai_response, 1) = None
    /\ QueryLine(SplitLines(ai_response), 1) = 0

\* C12 (total fallback): parsing a non-empty text with nothing to parse
\* yields criteria whose query is the original input and whose year and
\* impact-factor fields are absent.
C12_TotalFallback ==
    yielded # None /\ Unparsable(given)
      => /\ ~yielded.raised
         /\ yielded.value[1].query = given_input
         /\ yielded.value[1].year_start = None
         /\ yielded.value[1].year_end = None
         /\ yielded.value[1].min_if = None
         /\ yielded.value[1].max_if = None

---------------------------------------------------------------------------
(* SpecValidate: _validate_search_criteria called on a decoded record, and *)
(* then on the dict it returned.                                           *)

\* The objects that hold key with one of the values or do not hold it.
Part(key, values) == {NoKeys} \cup {key :> v : v \in values}

QueryParts ==
    Part("query", {JStr("influenza"), JStr(" ab "), JNull, JInt(5)})
YearValues ==
    {JNull, JInt(2018), JInt(2023), JInt(2030), JInt(2040), JStr("2020")}
IfValues ==
    {JNull, JInt(0), JInt(-5), JInt(3), JInt(200), JInt(300), JFloat(25)}
ZoneValues ==
    {JList(<<JInt(0), JInt(1), JInt(5), JInt(2)>>),
     JList(<<JInt(1), JFloat(25)>>), JList(<<JStr("2")>>), JStr("1"), JNull}
QuartileValues ==
    {JList(<<JStr("Q1"), JStr("Q5"), JInt(3), JStr("Q4")>>), JStr("Q1")}
KeywordValues ==
    {JList(<<JStr(" a "), JStr(""), JStr("b")>>),
     JList(<<JStr("a"), JInt(1)>>), JStr("a")}

\* The records the validator is given: any query with any pair of years or
\* any pair of impact factors, and a sound query with any of the lists.
RawRecords ==
    {q @@ a @@ b : q \in QueryParts, a \in Part("year_start", YearValues),
                   b \in Part("year_end", YearValues)}
    \cup {q @@ a @@ b : q \in QueryParts, a \in Part("min_if", IfValues),
                        b \in Part("max_if", IfValues)}
    \cup {("query" :> JStr("influenza")) @@ z @@ j @@ w :
             z \in Part("cas_zones", ZoneValues),
             j \in Part("jcr_quartiles", QuartileValues),
             w \in Part("keywords", KeywordValues)}

InitValidate ==
    /\ Constructed
    /\ given \in RawRecords
    /\ given_input \in UserInputs
    /\ api_type = "openai"
    /\ yielded = None
    /\ again = None

\* The dict the validator returned, as the decoded object it is when it is
\* handed to the validator.
AsData(validated) ==
    [query |-> JStr(validated.query),
     year_start |-> validated.year_start, year_end |-> validated.year_end,
     min_if |-> validated.min_if, max_if |-> validated.max_if,
     cas_zones |-> JList(validated.cas_zones),
     jcr_quartiles |-> JList(validated.jcr_quartiles),
     keywords |-> JList(validated.keywords)]

\* _validate_search_criteria(given, given_input) is called.
Validate ==
    /\ yielded = None
    /\ yielded' = _validate_search_criteria(given, given_input)
    /\ UNCHANGED <<analyzerState, given, given_input, api_type, again>>

\* The validator is called on the dict it returned.
Revalidate ==
    /\ yielded # None
    /\ ~yielded.raised
    /\ again = None
    /\ again' = _validate_search_criteria(AsData(yielded.value[1]), given_input)
    /\ UNCHANGED <<analyzerState, given, given_input, api_type, yielded>>

NextValidate == Validate \/ Revalidate

SpecValidate == InitValidate /\ [][NextValidate]_vars

\* The validator returned, and the dict it returned.
HasValidated == yielded # None /\ ~yielded.raised
validated_data == yielded.value[1]

\* C13 (year invariant): in the dict the validator returns, year_start <=
\* year_end when both are there, and year_end <= current_year + 1 when
\* year_end is there.
C13_YearInvariant ==
    HasValidated
      => /\ IsNumber(validated_data.year_start) /\ IsNumber(validated_data.year_end)
              => Num(validated_data.year_start) <= Num(validated_data.year_end)
         /\ IsNumber(validated_data.year_end)
              => Num(validated_data.year_end) <= 10 * (current_year + 1)

\* C14 (impact-factor invariant): in the dict the validator returns,
\* min_if >= 0 when it is there, max_if <= 100 when it is there, and
\* min_if <= max_if when both are there.
C14_ImpactFactorInvariant ==
    HasValidated
      => /\ IsNumber(validated_data.min_if) => Num(validated_data.min_if) >= 0
         /\ IsNumber(validated_data.max_if)
              => Num(validated_data.max_if) <= 10 * 100
         /\ IsNumber(validated_data.min_if) /\ IsNumber(validated_data.max_if)
              => Num(validated_data.min_if) <= Num(validated_data.max_if)

\* C15 (range repair idempotence): a reversed pair of years comes back
\* swapped (the later year kept unless it is past current_year + 1), and
\* validating the returned dict again returns the same dict.
C15_RepairIdempotent ==
    /\ (/\ HasValidated
        /\ {"year_start", "year_end"} \subseteq DOMAIN given
        /\ IsNumber(given.year_start) /\ IsNumber(given.year_end)
        /\ Num(given.year_start) > Num(given.year_end)
        /\ Num(given.year_end) > 0)
          => /\ validated_data.year_start = given.year_end
             /\ Num(given.year_start) <= 10 * (current_year + 1)
                  => validated_data.year_end = given.year_start
    /\ again # None => again = yielded

\* C16 (validator totality): the validator returns for every decoded
\* record.
C16_ValidatorTotal ==
    yielded # None => ~yielded.raised

\* The record without some of its keys.
Without(data, keys) == [k \in DOMAIN data \ keys |-> data[k]]

\* The elements of a list that are integers in 1..4, in order.
RECURSIVE IntegerZones(_)
IntegerZones(l) ==
    IF l = <<>> THEN <<>>
    ELSE (IF IsInt(Head(l)) /\ Head(l)[2] \in 1..4 THEN <<Head(l)>> ELSE <<>>)
         \o IntegerZones(Tail(l))

\* The elements of a list that are one of Q1..Q4, in order.
RECURSIVE NamedQuartiles(_)
NamedQuartiles(l) ==
    IF l = <<>> THEN <<>>
    ELSE (IF Head(l) \in {JStr("Q1"), JStr("Q2"), JStr("Q3"), JStr("Q4")}
          THEN <<Head(l)>> ELSE <<>>)
         \o NamedQuartiles(Tail(l))

\* C20 (enum filtering): the cas_zones the validator returns are the
\* integers in 1..4 of the list given, the jcr_quartiles the elements among
\* Q1..Q4 of the list given, in order, and nothing for an input that is no
\* list; no element of either list makes the call fail.
C20_EnumFiltering ==
    LET zones == Lookup(given, "cas_zones", JList(<<>>))
        quartiles == Lookup(given, "jcr_quartiles", JList(<<>>))
    IN  /\ HasValidated
            => /\ validated_data.cas_zones
                    = IF IsList(zones) THEN IntegerZones(zones[2]) ELSE <<>>
               /\ validated_data.jcr_quartiles
                    = IF IsList(quartiles) THEN NamedQuartiles(quartiles[2])
                      ELSE <<>>
        /\ yielded # None /\ yielded.raised
            => _validate_search_criteria(
                   Without(given, {"cas_zones", "jcr_quartiles"}),
                   given_input).raised

---------------------------------------------------------------------------
(* SpecExtract: _extract_response_content called on a response, for each   *)
(* api_type the adapter can be configured with.                            *)

ApiTypes == {"openai", "OpenAI", "gemini", "other"}

\* What a response can hold under 'choices' and under 'candidates'.
ChoicesValues ==
    {JNull, JList(<<>>), JList(<<JStr("x")>>), JList(<<JDict(NoKeys)>>),
     JList(<<JDict("message" :> JNull)>>),
     JList(<<JDict("message" :> JDict(NoKeys))>>)}
    \cup {JList(<<Choice(content)>>) :
             content \in {JStr(" hi "), JStr(""), JNull, JInt(5),
                          JList(<<JStr("a"), JInt(1)>>)}}
CandidatesValues ==
    {JList(<<>>), JList(<<JStr("x")>>), JList(<<JDict("content" :> JNull)>>),
     JList(<<JDict("content" :> JDict("parts" :> JList(<<>>)))>>),
     JList(<<JDict("content" :> JDict("parts" :> JList(<<JStr("x")>>)))>>),
     JList(<<Candidate(JStr(" hi "))>>), JList(<<Candidate(JNull)>>)}

\* The responses the extractor is given: null, a list, and the mappings
\* with or without an error, choices and candidates.
Envelopes ==
    {JNull, JList(<<JStr("x")>>)}
    \cup {JDict(e @@ c @@ d) : e \in Part("error", {JStr("timeout")}),
                               c \in Part("choices", ChoicesValues),
                               d \in Part("candidates", CandidatesValues)}

InitExtract ==
    /\ Constructed
    /\ given \in Envelopes
    /\ given_input = ""
    /\ api_type \in ApiTypes
    /\ yielded = None
    /\ again = None

\* _extract_response_content(given) is called.
Extract ==
    /\ yielded = None
    /\ yielded' = ExtractAs(api_type, given)
    /\ UNCHANGED <<analyzerState, given, given_input, api_type, again>>

NextExtract == Extract

SpecExtract == InitExtract /\ [][NextExtract]_vars

\* The response holds what the extractor looks for: an error, or a string
\* at the place the configured api_type keeps the content.
HasContent(type, response) ==
    /\ IsDict(response)
    /\ \/ "error" \in DOMAIN response[2]
       \/ /\ lower(type) = "openai"
          /\ \E text \in {" hi ", ""} :
                Lookup(response[2], "choices", JNull) = JList(<<Choice(JStr(text))>>)
       \/ /\ lower(type) = "gemini"
          /\ Lookup(response[2], "candidates", JNull)
                = JList(<<Candidate(JStr(" hi "))>>)

\* C17 (extractor totality): the extractor returns for every response, and
\* returns the empty string for one that does not hold the content where
\* the api_type keeps it (keys missing, values of another type, empty
\* lists, an api_type it does not know).
C17_ExtractorTotal ==
    yielded # None
      => /\ ~yielded.raised
         /\ ~HasContent(api_type, given) => yielded.value[1] = ""

---------------------------------------------------------------------------
(* SpecCompile: build_pubmed_query called on a SearchCriteria, and called  *)
(* again on the same criteria.                                             *)

\* f"{v}" of a year: the field is None or a number.
YearText(v) == Str(v)

DateField == "[Date - Publication]"

\* The year filter of the three branches; "" when neither year is truthy.
YearFilter(year_start, year_end) ==
    IF Truthy(year_start) /\ Truthy(year_end)
    THEN "(\"" \o YearText(year_start) \o "\"" \o DateField \o " : \""
              \o YearText(year_end) \o "\"" \o DateField \o ")"
    ELSE IF Truthy(year_start)
    THEN "\"" \o YearText(year_start) \o "\"" \o DateField \o " : 3000" \o DateField
    ELSE IF Truthy(year_end)
    THEN "1800" \o DateField \o " : \"" \o YearText(year_end) \o "\"" \o DateField
    ELSE ""

\* " AND ".join(f"({part})" for part in query_parts if part.strip())
RECURSIVE JoinParts(_)
JoinParts(query_parts) ==
    IF query_parts = <<>> THEN ""
    ELSE LET part == Head(query_parts)
             rest == JoinParts(Tail(query_parts))
         IN  IF strip(part) = "" THEN rest
             ELSE "(" \o part \o ")"
                    \o (IF rest = "" THEN "" ELSE " AND " \o rest)

query_parts(criteria) ==
    LET year_filter == YearFilter(criteria.year_start, criteria.year_end)
    IN  IF (Truthy(criteria.year_start) \/ Truthy(criteria.year_end))
            /\ year_filter # ""
        THEN <<criteria.query, year_filter>>
        ELSE <<criteria.query>>

\* A builder that also consults the keywords.
BuildWithKeywords(criteria) ==
    JoinParts(query_parts(criteria) \o criteria.keywords)
build_pubmed_query(criteria) == JoinParts(query_parts(criteria))

\* The criteria build_pubmed_query is given: blank and non-blank queries,
\* years that are absent, zero or a year, and the other fields empty or not.
CompileQueries == {"diabetes", "flu shots", "  ", ""}
CompileYears == {None, JInt(0), JInt(2020), JInt(2024)}
CompileCriteria ==
    {[SearchCriteria(q, s, e)
        EXCEPT !.min_if = lo, !.max_if = hi, !.cas_zones = zones,
               !.jcr_quartiles = quartiles, !.keywords = words] :
       q \in CompileQueries, s \in CompileYears, e \in CompileYears,
       lo \in {None, JInt(2)}, hi \in {None, JInt(10)},
       zones \in {<<>>, <<JInt(1)>>}, quartiles \in {<<>>, <<JStr("Q1")>>},
       words \in {<<>>, <<"rct">>}}

InitCompile ==
    /\ Constructed
    /\ given \in CompileCriteria
    /\ given_input = ""
    /\ api_type = "openai"
    /\ yielded = None
    /\ again = None

\* build_pubmed_query(given) is called.
Compile ==
    /\ yielded = None
    /\ yielded' = Returned(build_pubmed_query(given))
    /\ UNCHANGED <<analyzerState, given, given_input, api_type, again>>

\* build_pubmed_query is called on the same criteria once more.
Recompile ==
    /\ yielded # None
    /\ again = None
    /\ again' = Returned(build_pubmed_query(given))
    /\ UNCHANGED <<analyzerState, given, given_input, api_type, yielded>>

NextCompile == Compile \/ Recompile

SpecCompile == InitCompile /\ [][NextCompile]_vars

\* The string build_pubmed_query returned.
compiled == yielded.value[1]

\* C21 (compilation with both bounds): for criteria with a non-blank query
\* q and both year_start s and year_end e present, build_pubmed_query
\* returns (q) AND (("s"[Date - Publication] : "e"[Date - Publication])),
\* and a second call on the same criteria returns the same string.
C21_BothBounds ==
    /\ yielded # None /\ strip(given.query) # ""
         /\ given.year_start # None /\ given.year_end # None
         => compiled = "(" \o given.query \o ") AND ((\""
                         \o Str(given.year_start) \o "\"[Date - Publication] : \""
                         \o Str(given.year_end) \o "\"[Date - Publication]))"
    /\ again # None => again = yielded

\* The query fragment followed by a date fragment, the query fragment left
\* out when the query is blank.
WithDates(query, dates) ==
    IF strip(query) = "" THEN "(" \o dates \o ")"
    ELSE "(" \o query \o ") AND (" \o dates \o ")"

\* C22 (compilation with an open bound): with only year_start present the
\* date fragment runs from year_start to 3000, with only year_end present
\* from 1800 to year_end, with neither the output is the parenthesized
\* query alone; a blank fragment is left out, so the output never starts or
\* ends with " AND ".
C22_OpenBound ==
    yielded # None
      => /\ given.year_start # None /\ given.year_end = None
              => compiled = WithDates(given.query,
                              "\"" \o Str(given.year_start)
                                \o "\"[Date - Publication] : 3000[Date - Publication]")
         /\ given.year_start = None /\ given.year_end # None
              => compiled = WithDates(given.query,
                              "1800[Date - Publication] : \""
                                \o Str(given.year_end) \o "\"[Date - Publication]")
         /\ given.year_start = None /\ given.year_end = None
              => compiled = IF strip(given.query) = "" THEN ""
                            ELSE "(" \o given.query \o ")"
         /\ ~StartsWith(compiled, " AND ")
         /\ Len(compiled) < 5
              \/ SubSeq(compiled, Len(compiled) - 4, Len(compiled)) # " AND "

\* C23 (compilation independence): criteria that agree on query, year_start
\* and year_end compile to the same string whatever their cas_zones,
\* jcr_quartiles, min_if, max_if and keywords, and build_pubmed_query
\* leaves the criteria and the analyzer's state unchanged.
C23_Independence ==
    /\ [](yielded # None
            => \A other \in CompileCriteria :
                  /\ other.query = given.query
                  /\ other.year_start = given.year_start
                  /\ other.year_end = given.year_end
                  => build_pubmed_query(other) = compiled)
    /\ [][yielded' # yielded \/ again' # again
            => given' = given /\ UNCHANGED analyzerState]_vars

C23_Witness ==
    /\ yielded # None
    /\ again # None
    /\ given.query = "diabetes"
    /\ given.year_start = JInt(2020)
    /\ given.year_end = JInt(2024)
    /\ given.min_if # None
    /\ given.max_if # None
    /\ given.cas_zones # <<>>
    /\ given.jcr_quartiles # <<>>
    /\ given.keywords # <<>>
    /\ compiled = build_pubmed_query(SearchCriteria("diabetes", JInt(2020), JInt(2024)))

---------------------------------------------------------------------------
(* The parser's stages, over SpecParse.                                    *)

\* The object a fenced text was written for.
Intended(text) ==
    (CHOOSE o \in LenientObjects : \E before \in NoiseBefore, after \in NoiseAfter :
        text = Fenced(o[1], before, after))[2]

\* The decoder accepted the cleaned text, so the except clause that calls
\* the heuristic stage was not entered.
DecodedLeniently(ai_response) ==
    json_loads(_clean_json_string(
        JsonSource(JsonMatch(ai_response, 1), ai_response))).ok

\* C24 (parser fallback chain): a text holding a json-tagged fenced block
\* with noise around it, whose object is valid but for comments, single-
\* quoted delimiters or trailing commas, is decoded by the lenient stage
\* into the object's fields, and the heuristic stage is not reached.
C24_LenientStage ==
    [][ParseResponse /\ given \in FencedTexts
         => /\ DecodedLeniently(given)
            /\ yielded' = AfterValidate(_validate_search_criteria(Intended(given),
                                                                 given_input))]_vars

\* The four-digit years beginning with 20 that a text holds.
YearsIn(text) == {y \in 2000..2099 : Contains(text, ToString(y))}

\* C25 (heuristic year extraction): when decoding fails, a text with at
\* least two distinct years 20xx gives year_start the smallest and year_end
\* the largest of them, a text with fewer gives neither year, and in either
\* case there is a query.
C25_HeuristicYears ==
    yielded # None /\ ~DecodedLeniently(given)
      => /\ ~yielded.raised
         /\ yielded.value[1].query # ""
         /\ IF Cardinality(YearsIn(given)) >= 2
            THEN /\ yielded.value[1].year_start = JInt(SetMin(YearsIn(given)))
                 /\ yielded.value[1].year_end = JInt(SetMax(YearsIn(given)))
            ELSE /\ yielded.value[1].year_start = None
                 /\ yielded.value[1].year_end = None

C25_Witness ==
    /\ yielded # None
    /\ ~DecodedLeniently(given)
    /\ given = "Query: flu shots 2023 back to 2019 via 2021"
    /\ yielded.value[1].query = "flu shots 2023 back to 2019 via 2021"
    /\ yielded.value[1].year_start = JInt(2019)
    /\ yielded.value[1].year_end = JInt(2023)

---------------------------------------------------------------------------
(* SpecLate: SpecBatch followed by calls of analyze_intent.  The pool is   *)
(* the analyzer's own and outlives analyze_batch_intents, so a task the    *)
(* batch gave up on still runs when the batch has returned.                *)

NextLate ==
    \/ NextBatch
    \/ \E user_input \in UserInputs, outcome \in BatchOutcomes :
          /\ batch_pc = "returned"
          /\ AnalyzeIntent(user_input, outcome)

SpecLate == InitBatch /\ [][NextLate]_vars

\* The places whose future.result(timeout=60) ran out of time.
TimedOut == {i \in 1..Len(futures) : futures[i].collected = "timeout"}

\* The place of a task that timed out holds the fallback for its own input.
OwnFallbackOnTimeout ==
    [](\A i \in TimedOut :
          i <= Len(results) => results[i] = SearchCriteria(user_inputs[i], None, None))

\* Giving a task up leaves it as it is, pending or running.
TaskOutlivesTimeout ==
    [][\A i \in 1..Len(futures) :
          futures[i].collected = "none" /\ futures'[i].collected = "timeout"
            => /\ futures'[i].state = futures[i].state
               /\ futures[i].state \in {"pending", "running"}]_vars

\* A task given up that resolves criteria other than its input stores them
\* under its input.
LateResultStored ==
    [][\A i \in TimedOut :
          /\ futures[i].state = "running"
          /\ futures'[i].state = "done"
          /\ futures'[i].result[1].query # futures[i].user_input
          => /\ KeyFor(futures[i].user_input) \in DOMAIN cache'
             /\ cache'[KeyFor(futures[i].user_input)].criteria
                  = futures'[i].result[1]]_vars

\* A call of analyze_intent after the batch is served what is stored.
LateResultServed ==
    [][IsResolve /\ batch_pc = "returned"
          /\ KeyFor(last'.user_input) \in DOMAIN cache
          => /\ last'.stage = "hit"
             /\ last'.ret = cache[KeyFor(last'.user_input)].criteria]_vars

\* C26 (best-effort batch timeout): a batch task that exceeds its timeout
\* is not cancelled; the batch returns the fallback for that place while
\* the task keeps running in the pool, and if the task later resolves, its
\* criteria are stored in the cache and served to later calls for its text.
C26_BestEffortTimeout ==
    /\ OwnFallbackOnTimeout
    /\ TaskOutlivesTimeout
    /\ LateResultStored
    /\ LateResultServed

\* The batch gave the first task up, the task resolved after the batch had
\* returned, and a later call for its text was served its criteria.
LateServedReached ==
    /\ batch_pc = "returned"
    /\ 1 \in TimedOut
    /\ futures[1].state = "done"
    /\ futures[1].result[1].query = "influenza"
    /\ results[1].query # "influenza"
    /\ last.op = "analyze_intent"
    /\ last.stage = "hit"
    /\ last.user_input = futures[1].user_input
    /\ last.ret = futures[1].result[1]
    /\ calls = 2

---------------------------------------------------------------------------
(* SpecTriple: get and put with texts and model identifiers that hold the  *)
(* ':' the key's content is joined with.                                   *)

TripleInputs == {<<"a:b", "c">>, <<"a", "b:c">>, <<"a", "c">>}

NextTriple ==
    \/ Tick
    \/ \E a \in TripleInputs : Get(a[1], a[2], model_parameters)
    \/ \E a \in TripleInputs, c \in CriteriaValues :
          Put(a[1], a[2], model_parameters, c)

SpecTriple == Init /\ [][NextTriple]_vars

\* C28 (no cross-triple hits): two different (text, model_id, params)
\* triples never have the same cache key, and a get for one triple never
\* returns criteria that were put under another triple.
C28_NoCrossTripleHit ==
    /\ [](\A a, b \in TripleInputs :
            a # b => _generate_cache_key(a[1], a[2], model_parameters)
                       # _generate_cache_key(b[1], b[2], model_parameters))
    /\ [][(IsCall /\ last'.op = "get" /\ last'.ret # None)
            => SameTriple(cache[KeyOf(last')], last')]_vars

---------------------------------------------------------------------------
(* SpecThreads: threads call analyze_intent concurrently.  A step is what  *)
(* a thread does between two points at which another thread can run: the  *)
(* count and the call of get, taking the lock, the locked block of get,    *)
(* the prompt up to the call of send_message, the backend's answer, the    *)
(* extraction, parsing and validation of the response, and the locked      *)
(* block of put.                                                           *)

\* The counters whose increment by thread t can be lost: the dicts of
\* counters are written outside the lock.
LostTo(t, counters) ==
    IF \E u \in Threads \ {t} : pc[u] # "idle" THEN SUBSET counters ELSE {{}}

\* Mutant: the lock still held when the with block is left.
ReleaseNever(t) == t

\* The end of a "with self.lock" block of thread t: the lock is free.
Release(t) == 0

\* analyze_intent(user_input) is called: the analysis is counted and
\* analysis_cache.get computes its key.
ThreadCall(t, user_input) ==
    /\ pc[t] = "idle"
    /\ calls < MaxThreadCalls
    /\ \E lost \in LostTo(t, {"total_analyses"}) :
          performance_stats' = Count(performance_stats, "total_analyses", lost)
    /\ frame' = [frame EXCEPT
                    ![t] = Frame("lookup", user_input, self_model_id, None, 0)]
    /\ pc' = [pc EXCEPT ![t] = "acquire"]
    /\ calls' = calls + 1
    /\ UNCHANGED <<cacheVars, now, stored, last, lock, gets_done, enable_cache,
                   enable_async, dispatches, batchVars, answer, pureVars>>

\* The locked block of get, and the return to analyze_intent: a hit is
\* counted and returned, anything else goes on to the prompt.
ThreadLookup(t) ==
    /\ pc[t] = "locked"
    /\ frame[t].op = "lookup"
    /\ lock = t
    /\ LET r == get_locked(Self, frame[t].user_input, frame[t].model_id,
                           model_parameters, now)
       IN  /\ SetSelf(r.self)
           /\ pc' = [pc EXCEPT ![t] = IF r.hit THEN "idle" ELSE "prompt"]
           /\ gets_done' = IF r.hit THEN gets_done + 1 ELSE gets_done
           /\ \E lost \in LostTo(t, {"cache_hits"}) :
                 performance_stats' =
                     IF r.hit THEN Count(performance_stats, "cache_hits", lost)
                     ELSE performance_stats
    /\ lock' = Release(t)
    /\ UNCHANGED <<now, stored, calls, last, frame, enable_cache, enable_async,
                   dispatches, batchVars, answer, pureVars>>

\* get counts the miss and returns None; the prompt is built and
\* send_message is called.
ThreadPrompt(t) ==
    /\ pc[t] = "prompt"
    /\ \E lost \in LostTo(t, {"misses"}) :
          stats' = IF "misses" \in lost THEN stats ELSE CountMiss(Self).stats
    /\ gets_done' = gets_done + 1
    /\ dispatches' = dispatches + 1
    /\ pc' = [pc EXCEPT ![t] = "dispatch"]
    /\ UNCHANGED <<cache, access_times, cache_size, now, stored, calls, last,
                   lock, frame, enable_cache, enable_async, performance_stats,
                   batchVars, answer, pureVars>>

\* send_message is back: with a response, which the thread goes on to
\* read, or with an exception, which the except clause counts.
ThreadAnswer(t, outcome) ==
    /\ pc[t] = "dispatch"
    /\ frame' = [frame EXCEPT ![t].criteria = Some(outcome)]
    /\ \E lost \in LostTo(t, {"ai_calls", "errors"}) :
          performance_stats' =
              IF outcome.raised THEN Count(performance_stats, "errors", lost)
              ELSE Count(performance_stats, "ai_calls", lost)
    /\ pc' = [pc EXCEPT ![t] = IF outcome.raised THEN "idle" ELSE "respond"]
    /\ UNCHANGED <<cacheVars, now, stored, calls, last, lock, gets_done,
                   enable_cache, enable_async, dispatches, batchVars, answer,
                   pureVars>>

\* The response is extracted, parsed and validated: criteria that are to
\* be stored go to put, anything else is returned.
ThreadRespond(t) ==
    /\ pc[t] = "respond"
    /\ LET r == Resolved[frame[t].user_input, frame[t].criteria[1]]
           store == r.stage = "parsed" /\ ShouldStore(r.criteria, frame[t].user_input)
       IN  /\ frame' = [frame EXCEPT ![t].criteria = Some(r.criteria),
                                     ![t].op = IF store THEN "store" ELSE "lookup"]
           /\ pc' = [pc EXCEPT ![t] = IF store THEN "acquire" ELSE "idle"]
           /\ \E lost \in LostTo(t, {"errors"}) :
                 performance_stats' =
                     IF r.stage \in RaisingStages
                     THEN Count(performance_stats, "errors", lost)
                     ELSE performance_stats
    /\ UNCHANGED <<cacheVars, now, stored, calls, last, lock, gets_done,
                   enable_cache, enable_async, dispatches, batchVars, answer,
                   pureVars>>

\* The locked block of put; analyze_intent returns the criteria.
ThreadStore(t) ==
    /\ pc[t] = "locked"
    /\ frame[t].op = "store"
    /\ lock = t
    /\ \E oldest_key \in EvictChoices(Self) :
          SetSelf(put(Self, frame[t].user_input, frame[t].model_id,
                      model_parameters, frame[t].criteria[1], oldest_key, now))
    /\ pc' = [pc EXCEPT ![t] = "idle"]
    /\ lock' = Release(t)
    /\ UNCHANGED <<now, stored, calls, last, frame, gets_done, analyzerVars,
                   batchVars, answer, pureVars>>

\* The clock moves on between the calls, from the first call on: a call
\* reads it in the locked blocks of get and put only, and only the
\* differences between its readings count.
NextThreads ==
    \/ Quiescent /\ calls > 0 /\ Tick
    \/ \E t \in Threads, user_input \in UserInputs : ThreadCall(t, user_input)
    \/ \E t \in Threads : Acquire(t)
    \/ \E t \in Threads : ThreadLookup(t)
    \/ \E t \in Threads : ThreadPrompt(t)
    \/ \E t \in Threads, outcome \in BatchOutcomes : ThreadAnswer(t, outcome)
    \/ \E t \in Threads : ThreadRespond(t)
    \/ \E t \in Threads : ThreadStore(t)

SpecThreads == Init /\ [][NextThreads]_vars

\* Where a thread is while it builds the prompt, waits for the backend,
\* or extracts, parses and validates the response.
OutsideCache == {"prompt", "dispatch", "respond"}

\* C29 (lock scope): the cache lock is held only inside the locked blocks
\* of the cache's methods: no thread holds it while it builds a prompt,
\* waits for the backend or extracts, parses and validates a response, so
\* a thread waiting for the backend never keeps another from get or put.
C29_LockScope ==
    /\ \A t \in Threads : pc[t] \in OutsideCache => lock # t
    /\ lock # 0 => pc[lock] = "locked"
    /\ (\A t \in Threads : pc[t] # "locked") => lock = 0

\* One thread waits for the backend while another is inside the locked
\* block of its get.
C29_Witness ==
    /\ pc[1] = "dispatch"
    /\ pc[2] = "locked"
    /\ lock = 2
    /\ frame[2].op = "lookup"

---------------------------------------------------------------------------
(* Re-put of a resident key, checked under Spec.                           *)

\* C30 (re-put of a resident key): when the cache is full, a put for a key
\* that is in the cache replaces that entry's value and timestamps in
\* place and evicts nothing: no other key is removed, the size is
\* unchanged and the eviction counter is not incremented.
C30_ReputInPlace ==
    [][(/\ IsCall
        /\ last'.op = "put"
        /\ Full(Self)
        /\ KeyOf(last') \in DOMAIN cache)
         => /\ DOMAIN cache' = DOMAIN cache
            /\ cache'[KeyOf(last')].criteria = last'.criteria[1]
            /\ cache'[KeyOf(last')].timestamp = now
            /\ access_times'[KeyOf(last')] = now
            /\ \A k \in DOMAIN cache \ {KeyOf(last')} :
                  k \in DOMAIN cache' /\ cache'[k] = cache[k]
            /\ stats'.evictions = stats.evictions]_vars

====
